---- MODULE Spec2Model ----
(***************************************************************************)
(* Payment-allocation logic of the pymt Lightning Web Components:          *)
(*   InvoiceSelector  (callCenterPayment.js, second class of the file)     *)
(*   AccountPayment   (accountPayment.js)                                  *)
(*   InvoicePayment   (single-invoice flow)                                *)
(* Money amounts are JavaScript numbers in the source; the model uses      *)
(* whole currency units (integers).                                        *)
(***************************************************************************)
EXTENDS Integers, Sequences, FiniteSets, TLC

(* Number of open invoices the backend returns for the account. *)
NumInvoices == 2

VARIABLES
    is_invoices,          \* InvoiceSelector.invoices: the rows, in list order
    is_selectedInvoices,  \* InvoiceSelector.selectedInvoices: a Map, in insertion order
    is_isLoading,         \* InvoiceSelector.isLoading
    is_error,             \* InvoiceSelector.error
    is_call,              \* state of the getOpenInvoices promise
    events,               \* the last 'selectionchange' detail dispatched (<<>> before any)
    ap_accountCredits,    \* AccountPayment.accountCredits (remainingBalance of each record)
    ap_creditsCall,       \* state of the getAccountCredits promise
    ap_applyCredits,      \* AccountPayment.applyCredits
    ap_creditAmountToApply, \* AccountPayment.creditAmountToApply
    ap_invoiceAllocations,  \* AccountPayment.invoiceAllocations
    ap_totalAmount,       \* AccountPayment.totalAmount
    ap_invoiceCount,      \* AccountPayment.invoiceCount
    ip_invoice,           \* InvoicePayment.invoice (the wired record)
    ip_paymentType,       \* InvoicePayment.paymentType
    ip_partialAmount,     \* InvoicePayment.partialAmount
    ip_gateways,          \* InvoicePayment.gateways
    ip_gatewaysCall,      \* state of InvoicePayment's getActiveGateways promise
    ip_selectedGatewayId, \* InvoicePayment.selectedGatewayId
    ip_currentStep,       \* InvoicePayment.currentStep
    ip_paymentResult,     \* InvoicePayment.paymentResult
    ap_currentStep,       \* AccountPayment.currentStep
    ap_gateways,          \* AccountPayment.gateways
    ap_gatewaysCall,      \* state of AccountPayment's getActiveGateways promise
    ap_selectedGatewayId, \* AccountPayment.selectedGatewayId
    ap_paymentResult,     \* AccountPayment.paymentResult
    ap_toast,             \* the last ShowToastEvent AccountPayment dispatched
    pf_amount,            \* PaymentForm.amount (@api, set by the parent)
    pf_isLoading,         \* PaymentForm.isLoading
    pf_gatewayConfig,     \* PaymentForm.gatewayConfig.gatewayType, or "undefined"
    pf_configCall,        \* where loadGatewayConfig stands
    pf_cardElement,       \* PaymentForm.cardElement: none, created, mounted, unmounted
    pf_paymentMethods,    \* PaymentForm.paymentMethods (ids)
    pf_methodsCall,       \* state of PaymentForm's getPaymentMethods promise
    pf_selectedPaymentMethodId, \* PaymentForm.selectedPaymentMethodId
    pf_useNewCard,        \* PaymentForm.useNewCard
    pf_cardValid,         \* PaymentForm.cardValid
    pf_submits,           \* the handleSubmit invocations that have not returned
    pf_out,               \* what the last PaymentForm step dispatched
    ach,                  \* the tracked fields of AchPaymentEntry
    ach_out,              \* the event the last AchPaymentEntry step dispatched
    cc,                   \* the tracked fields of CallCenterPayment
    cc_pending,           \* its debounce timers and the backend calls in flight
    cc_out,               \* the toast the last CallCenterPayment step dispatched
    gi                    \* GenerateInvoices: its fields, its calls in flight, its last toast

is_vars == <<is_invoices, is_selectedInvoices, is_isLoading, is_error, is_call, events>>
ap_vars == <<ap_accountCredits, ap_creditsCall, ap_applyCredits, ap_creditAmountToApply,
             ap_invoiceAllocations, ap_totalAmount, ap_invoiceCount>>
ip_vars == <<ip_invoice, ip_paymentType, ip_partialAmount, ip_gateways,
             ip_gatewaysCall, ip_selectedGatewayId>>
(* the step machines of the two payment screens *)
st_vars == <<ip_currentStep, ip_paymentResult, ap_currentStep, ap_gateways,
             ap_gatewaysCall, ap_selectedGatewayId, ap_paymentResult, ap_toast>>
pf_vars == <<pf_amount, pf_isLoading, pf_gatewayConfig, pf_configCall, pf_cardElement,
             pf_paymentMethods, pf_methodsCall, pf_selectedPaymentMethodId,
             pf_useNewCard, pf_cardValid, pf_submits, pf_out>>
(* the components that take a payment instrument *)
ach_vars == <<ach, ach_out>>
cc_vars == <<cc, cc_pending, cc_out>>
form_vars == <<pf_vars, ach_vars, cc_vars>>
(* the two payment screens with the selector *)
screen_vars == <<is_vars, ap_vars, ip_vars, st_vars, gi>>
ext_vars == <<st_vars, form_vars, gi>>
vars == <<is_vars, ap_vars, ip_vars, ext_vars>>

----------------------------------------------------------------------------
(* JavaScript helpers *)

MathMin(a, b) == IF a <= b THEN a ELSE b
MathMax(a, b) == IF a >= b THEN a ELSE b

(* The text of an input field: a number as typed, or text that parseFloat
   turns into NaN. *)
Num(n) == [kind |-> "num", val |-> n]
NotANumber == [kind |-> "nan", val |-> 0]

(* parseFloat(event.target.value) || 0 : NaN and 0 both give 0. *)
ParseFloatOrZero(inp) == IF inp.kind = "nan" THEN 0 ELSE inp.val

(* What a user may type into a partial-amount field: negative, in range,
   over-large, not a number. *)
AmountInputs == {Num(-5), Num(30), Num(1000), NotANumber}

(* What a user may type into the credit-amount field. *)
CreditInputs == {Num(-5), Num(120), Num(1000), NotANumber}

(* The balances getOpenInvoices may return, one per invoice, all >= 0. *)
BalanceTables == {<<200, 50, 0>>, <<100, 50, 30>>, <<0, 100, 50>>}
OpenInvoiceData ==
    { [i \in 1..NumInvoices |-> T[((i - 1) % Len(T)) + 1]] : T \in BalanceTables }

(* The credit records getAccountCredits may return (remainingBalance of each). *)
AccountCreditData == {<<>>, <<150, 100>>}

(* The gateway lists getActiveGateways may return. *)
GatewayData == {<<>>, <<"gw1">>, <<"gw1", "gw2">>}

InvoiceIds == 1..NumInvoices
PaymentTypes == {"full", "partial"}

----------------------------------------------------------------------------
(* A JavaScript Map keyed by invoiceId, as the sequence of its values in
   insertion order. *)

MapHas(m, id) == \E j \in 1..Len(m) : m[j].invoiceId = id

MapSetMovesToEnd(m, entry) ==
    Append(SelectSeq(m, LAMBDA e : e.invoiceId # entry.invoiceId), entry)

MapSet(m, entry) ==
    IF MapHas(m, entry.invoiceId)
    THEN [j \in 1..Len(m) |-> IF m[j].invoiceId = entry.invoiceId THEN entry ELSE m[j]]
    ELSE Append(m, entry)

(* A delete that keeps the key with a zero amount instead of removing it. *)
MapDeleteZeroesEntry(m, id) ==
    [j \in 1..Len(m) |-> IF m[j].invoiceId = id THEN [m[j] EXCEPT !.amount = 0] ELSE m[j]]

MapDelete(m, id) == SelectSeq(m, LAMBDA e : e.invoiceId # id)

RECURSIVE SumAmounts(_)
SumAmounts(s) == IF s = <<>> THEN 0 ELSE Head(s).amount + SumAmounts(Tail(s))

----------------------------------------------------------------------------
(* InvoiceSelector *)

(* the row objects built by loadInvoices *)
InvoiceRows(data) ==
    [i \in 1..Len(data) |->
        [id |-> i, balanceDue |-> data[i], selected |-> FALSE,
         paymentType |-> "full", paymentAmount |-> data[i]]]

NotifyTotalOfFullOnly(sel) ==
    [allocations |-> sel,
     totalAmount |-> SumAmounts(SelectSeq(sel, LAMBDA a : a.isFullPayment)),
     invoiceCount |-> Len(sel)]

(* detail of the 'selectionchange' event *)
notifySelectionChange(sel) ==
    [allocations |-> sel, totalAmount |-> SumAmounts(sel), invoiceCount |-> Len(sel)]

(* AccountPayment.handleInvoiceSelectionChange runs synchronously inside
   dispatchEvent. *)
AP_handleInvoiceSelectionChange(detail) ==
    /\ ap_invoiceAllocations' = detail.allocations
    /\ ap_totalAmount' = detail.totalAmount
    /\ ap_invoiceCount' = detail.invoiceCount
    /\ UNCHANGED <<ap_accountCredits, ap_creditsCall, ap_applyCredits,
                   ap_creditAmountToApply>>

(* dispatchEvent(new CustomEvent('selectionchange', ...)) with the listener *)
Dispatch(sel) ==
    /\ events' = <<notifySelectionChange(sel)>>
    /\ AP_handleInvoiceSelectionChange(notifySelectionChange(sel))

IS_loadInvoicesResolve(data) ==
    /\ is_call = "pending"
    /\ is_call' = "done"
    /\ is_invoices' = InvoiceRows(data)
    /\ is_isLoading' = FALSE
    /\ UNCHANGED <<is_selectedInvoices, is_error, events, ap_vars, ip_vars, ext_vars>>

IS_loadInvoicesReject ==
    /\ is_call = "pending"
    /\ is_call' = "done"
    /\ is_error' = "Error loading invoices"
    /\ is_isLoading' = FALSE
    /\ UNCHANGED <<is_invoices, is_selectedInvoices, events, ap_vars, ip_vars, ext_vars>>

IS_handleInvoiceSelect(invoiceId, checked) ==
    /\ invoiceId \in DOMAIN is_invoices
    /\ LET rows == [i \in DOMAIN is_invoices |->
                      IF is_invoices[i].id = invoiceId
                      THEN [is_invoices[i] EXCEPT !.selected = checked]
                      ELSE is_invoices[i]]
           invoice == rows[invoiceId]
           sel == IF checked
                  THEN MapSet(is_selectedInvoices,
                              [invoiceId |-> invoiceId, amount |-> invoice.balanceDue,
                               isFullPayment |-> TRUE])
                  ELSE MapDelete(is_selectedInvoices, invoiceId)
       IN /\ is_invoices' = rows
          /\ is_selectedInvoices' = sel
          /\ Dispatch(sel)
    /\ UNCHANGED <<is_isLoading, is_error, is_call, ip_vars, ext_vars>>

(* handlePaymentTypeChange that stores the row's last amount in either mode *)
PaymentTypeChangeKeepsAmount(invoiceId, paymentType) ==
    /\ invoiceId \in DOMAIN is_invoices
    /\ LET inv == is_invoices[invoiceId]
           isFullPayment == paymentType = "full"
           sel == IF MapHas(is_selectedInvoices, invoiceId)
                  THEN MapSet(is_selectedInvoices,
                              [invoiceId |-> invoiceId, amount |-> inv.paymentAmount,
                               isFullPayment |-> isFullPayment])
                  ELSE is_selectedInvoices
       IN /\ is_invoices' = [is_invoices EXCEPT ![invoiceId].paymentType = paymentType]
          /\ is_selectedInvoices' = sel
          /\ Dispatch(sel)
    /\ UNCHANGED <<is_isLoading, is_error, is_call, ip_vars, ext_vars>>

IS_handlePaymentTypeChange(invoiceId, paymentType) ==
    /\ invoiceId \in DOMAIN is_invoices
    /\ LET inv == is_invoices[invoiceId]
           isFullPayment == paymentType = "full"
           amount == IF isFullPayment THEN inv.balanceDue ELSE inv.paymentAmount
           sel == IF MapHas(is_selectedInvoices, invoiceId)
                  THEN MapSet(is_selectedInvoices,
                              [invoiceId |-> invoiceId, amount |-> amount,
                               isFullPayment |-> isFullPayment])
                  ELSE is_selectedInvoices
       IN /\ is_invoices' = [is_invoices EXCEPT ![invoiceId].paymentType = paymentType]
          /\ is_selectedInvoices' = sel
          /\ Dispatch(sel)
    /\ UNCHANGED <<is_isLoading, is_error, is_call, ip_vars, ext_vars>>

ValidAmountNoFloor(amount, balanceDue) == MathMin(amount, balanceDue)

(* Math.min(Math.max(0, amount), inv.balanceDue) *)
validAmount(amount, balanceDue) == MathMin(MathMax(0, amount), balanceDue)

IS_handlePartialAmountChange(invoiceId, value) ==
    /\ invoiceId \in DOMAIN is_invoices
    /\ LET amount == ParseFloatOrZero(value)
           inv == is_invoices[invoiceId]
           valid == validAmount(amount, inv.balanceDue)
           sel == IF MapHas(is_selectedInvoices, invoiceId)
                  THEN MapSet(is_selectedInvoices,
                              [invoiceId |-> invoiceId, amount |-> valid,
                               isFullPayment |-> FALSE])
                  ELSE is_selectedInvoices
       IN /\ is_invoices' = [is_invoices EXCEPT ![invoiceId].paymentAmount = valid]
          /\ is_selectedInvoices' = sel
          /\ Dispatch(sel)
    /\ UNCHANGED <<is_isLoading, is_error, is_call, ip_vars, ext_vars>>

(* this.invoices.forEach(inv => this.selectedInvoices.set(inv.id, {...})) *)
RECURSIVE SetAllFull(_, _)
SetAllFull(m, rows) ==
    IF rows = <<>> THEN m
    ELSE SetAllFull(MapSet(m, [invoiceId |-> Head(rows).id,
                               amount |-> Head(rows).balanceDue,
                               isFullPayment |-> TRUE]),
                    Tail(rows))

IS_handleSelectAll(checked) ==
    /\ LET rows == [i \in DOMAIN is_invoices |->
                      [is_invoices[i] EXCEPT !.selected = checked]]
           sel == IF checked THEN SetAllFull(is_selectedInvoices, rows) ELSE <<>>
       IN /\ is_invoices' = rows
          /\ is_selectedInvoices' = sel
          /\ Dispatch(sel)
    /\ UNCHANGED <<is_isLoading, is_error, is_call, ip_vars, ext_vars>>

(* A clear that empties the selection and leaves the rows as they are. *)
ClearSelectionsKeepsRows ==
    /\ is_selectedInvoices' = <<>>
    /\ Dispatch(<<>>)
    /\ UNCHANGED <<is_invoices, is_isLoading, is_error, is_call, ip_vars, ext_vars>>

IS_clearSelections ==
    /\ is_selectedInvoices' = <<>>
    /\ is_invoices' = [i \in DOMAIN is_invoices |->
                         [is_invoices[i] EXCEPT !.selected = FALSE,
                                                !.paymentType = "full",
                                                !.paymentAmount = is_invoices[i].balanceDue]]
    /\ Dispatch(<<>>)
    /\ UNCHANGED <<is_isLoading, is_error, is_call, ip_vars, ext_vars>>

(* invoicesWithState: the partial-amount field of a row is shown only when
   the row is selected and in partial mode. *)
showPartialAmount(inv) == inv.selected /\ inv.paymentType = "partial"

(* The row template: the partial-amount field exists only while
   showPartialAmount holds; in full mode the amount is not user-editable. *)
PartialAmountFieldShown(id) == showPartialAmount(is_invoices[id])

----------------------------------------------------------------------------
(* AccountPayment *)

RECURSIVE SumBalances(_)
SumBalances(s) == IF s = <<>> THEN 0 ELSE Head(s) + SumBalances(Tail(s))

(* accountCredits.reduce((sum, c) => sum + c.remainingBalance, 0) *)
AP_totalAvailableCredit == SumBalances(ap_accountCredits)

AP_hasAccountCredits == Len(ap_accountCredits) > 0 /\ AP_totalAvailableCredit > 0

AP_loadAccountCreditsResolve(data) ==
    /\ ap_creditsCall = "pending"
    /\ ap_creditsCall' = "done"
    /\ ap_accountCredits' = data
    /\ UNCHANGED <<ap_applyCredits, ap_creditAmountToApply, ap_invoiceAllocations,
                   ap_totalAmount, ap_invoiceCount, is_vars, ip_vars, ext_vars>>

(* the catch block only logs *)
AP_loadAccountCreditsReject ==
    /\ ap_creditsCall = "pending"
    /\ ap_creditsCall' = "done"
    /\ UNCHANGED <<ap_accountCredits, ap_applyCredits, ap_creditAmountToApply,
                   ap_invoiceAllocations, ap_totalAmount, ap_invoiceCount,
                   is_vars, ip_vars, ext_vars>>

AP_handleApplyCreditsChange(checked) ==
    /\ ap_applyCredits' = checked
    /\ ap_creditAmountToApply' =
          IF ~checked THEN 0 ELSE MathMin(AP_totalAvailableCredit, ap_totalAmount)
    /\ UNCHANGED <<ap_accountCredits, ap_creditsCall, ap_invoiceAllocations,
                   ap_totalAmount, ap_invoiceCount, is_vars, ip_vars, ext_vars>>

AP_handleCreditAmountChange(value) ==
    /\ ap_creditAmountToApply' =
          MathMin(ParseFloatOrZero(value),
                  MathMin(AP_totalAvailableCredit, ap_totalAmount))
    /\ UNCHANGED <<ap_accountCredits, ap_creditsCall, ap_applyCredits,
                   ap_invoiceAllocations, ap_totalAmount, ap_invoiceCount,
                   is_vars, ip_vars, ext_vars>>

AP_amountAfterCredits == MathMax(0, ap_totalAmount - ap_creditAmountToApply)

AP_paymentAmount == AP_amountAfterCredits

(* every invoice is offered the whole credit: remainingCredit is not reduced *)
RECURSIVE DistributeCreditNoDecrement(_, _)
DistributeCreditNoDecrement(allocs, remainingCredit) ==
    IF allocs = <<>> THEN <<>>
    ELSE LET alloc == Head(allocs)
             creditForInvoice == MathMin(remainingCredit, alloc.amount)
         IN <<[alloc EXCEPT !.amount = alloc.amount - creditForInvoice]>>
            \o DistributeCreditNoDecrement(Tail(allocs), remainingCredit)

(* the flag is recomputed from the reduced amount instead of being copied *)
RECURSIVE DistributeCreditRecomputesFlag(_, _)
DistributeCreditRecomputesFlag(allocs, remainingCredit) ==
    IF allocs = <<>> THEN <<>>
    ELSE LET alloc == Head(allocs)
             creditForInvoice == MathMin(remainingCredit, alloc.amount)
         IN <<[alloc EXCEPT !.amount = alloc.amount - creditForInvoice,
                            !.isFullPayment = alloc.isFullPayment /\ creditForInvoice = 0]>>
            \o DistributeCreditRecomputesFlag(Tail(allocs),
                                              remainingCredit - creditForInvoice)

(* the .map() of allocationsForPayment: remainingCredit is threaded through
   the list in order *)
RECURSIVE DistributeCredit(_, _)
DistributeCredit(allocs, remainingCredit) ==
    IF allocs = <<>> THEN <<>>
    ELSE LET alloc == Head(allocs)
             creditForInvoice == MathMin(remainingCredit, alloc.amount)
         IN <<[alloc EXCEPT !.amount = alloc.amount - creditForInvoice]>>
            \o DistributeCredit(Tail(allocs), remainingCredit - creditForInvoice)

(* no early return: the list is always mapped and filtered *)
AllocationsAlwaysDistributed ==
    SelectSeq(DistributeCredit(ap_invoiceAllocations, ap_creditAmountToApply),
              LAMBDA alloc : alloc.amount > 0)

(* the filter keeps allocations reduced to zero *)
AllocationsKeepZero ==
    IF ~ap_applyCredits \/ ap_creditAmountToApply <= 0
    THEN ap_invoiceAllocations
    ELSE SelectSeq(DistributeCredit(ap_invoiceAllocations, ap_creditAmountToApply),
                   LAMBDA alloc : alloc.amount >= 0)

AP_allocationsForPayment ==
    IF ~ap_applyCredits \/ ap_creditAmountToApply <= 0
    THEN ap_invoiceAllocations
    ELSE SelectSeq(DistributeCredit(ap_invoiceAllocations, ap_creditAmountToApply),
                   LAMBDA alloc : alloc.amount > 0)

----------------------------------------------------------------------------
(* InvoicePayment: the single-invoice flow *)

(* getFieldValue(this.invoice.data, INVOICE_BALANCE) || 0 *)
IP_balanceDue == IF ip_invoice.data THEN ip_invoice.balanceDue ELSE 0

IP_paymentAmount == IF ip_paymentType = "full" THEN IP_balanceDue ELSE ip_partialAmount

IP_invoiceAllocations ==
    <<[invoiceId |-> "recordId", amount |-> IP_paymentAmount,
       isFullPayment |-> (ip_paymentType = "full")]>>

IP_canSubmit ==
    IF IP_balanceDue <= 0 THEN FALSE
    ELSE IF ip_paymentType = "partial" /\ ip_partialAmount <= 0 THEN FALSE
    ELSE TRUE

IP_showPartialAmount == ip_paymentType = "partial"

(* the wire adapter provisions (or refreshes) the invoice record *)
IP_wireInvoice(balance) ==
    /\ ip_invoice' = [data |-> TRUE, balanceDue |-> balance]
    /\ UNCHANGED <<ip_paymentType, ip_partialAmount, ip_gateways, ip_gatewaysCall,
                   ip_selectedGatewayId, is_vars, ap_vars, ext_vars>>

IP_loadGatewaysResolve(data) ==
    /\ ip_gatewaysCall = "pending"
    /\ ip_gatewaysCall' = "done"
    /\ ip_gateways' = data
    /\ UNCHANGED <<ip_invoice, ip_paymentType, ip_partialAmount,
                   ip_selectedGatewayId, is_vars, ap_vars, ext_vars>>

IP_loadGatewaysReject ==
    /\ ip_gatewaysCall = "pending"
    /\ ip_gatewaysCall' = "done"
    /\ UNCHANGED <<ip_invoice, ip_paymentType, ip_partialAmount, ip_gateways,
                   ip_selectedGatewayId, is_vars, ap_vars, ext_vars>>

IP_handlePaymentTypeChange(value) ==
    /\ ip_paymentType' = value
    /\ ip_partialAmount' = IF value = "full" THEN 0 ELSE IP_balanceDue
    /\ UNCHANGED <<ip_invoice, ip_gateways, ip_gatewaysCall, ip_selectedGatewayId,
                   is_vars, ap_vars, ext_vars>>

IP_handlePartialAmountChange(value) ==
    /\ ip_partialAmount' = MathMin(ParseFloatOrZero(value), IP_balanceDue)
    /\ UNCHANGED <<ip_invoice, ip_paymentType, ip_gateways, ip_gatewaysCall,
                   ip_selectedGatewayId, is_vars, ap_vars, ext_vars>>

IP_handleGatewayChange(value) ==
    /\ ip_selectedGatewayId' = value
    /\ UNCHANGED <<ip_invoice, ip_paymentType, ip_partialAmount, ip_gateways,
                   ip_gatewaysCall, is_vars, ap_vars, ext_vars>>

----------------------------------------------------------------------------
(* The step machines of AccountPayment and InvoicePayment *)

(* paymentResult before any payment succeeded *)
NoResult == [success |-> FALSE, transactionId |-> "undefined",
             gatewayTransactionId |-> "undefined"]

(* getActiveGateways() results: none, one without a default, two with the
   second as default *)
ActiveGatewayData ==
    { <<>>,
      <<[id |-> "gw1", isDefault |-> FALSE]>>,
      <<[id |-> "gw1", isDefault |-> FALSE], [id |-> "gw2", isDefault |-> TRUE]>> }

(* detail of a 'paymentsuccess' event, message of a 'paymentfailure' event *)
SuccessDetails ==
    { [transactionId |-> "txn1", gatewayTransactionId |-> "ch_1"],
      [transactionId |-> "txn2", gatewayTransactionId |-> "ch_2"] }
FailureMessages == {"Card declined", "Payment failed"}

(* gateways.find(g => g.isDefault) || gateways[0] *)
DefaultGateway(gateways) ==
    IF \E i \in DOMAIN gateways : gateways[i].isDefault
    THEN gateways[CHOOSE i \in DOMAIN gateways :
                      /\ gateways[i].isDefault
                      /\ \A j \in 1..(i - 1) : ~gateways[j].isDefault]
    ELSE gateways[1]

AP_showError(message) == ap_toast' = message

AP_loadGatewaysResolve(data) ==
    /\ ap_gatewaysCall = "pending"
    /\ ap_gatewaysCall' = "done"
    /\ ap_gateways' = data
    /\ ap_selectedGatewayId' = IF Len(data) > 0 THEN DefaultGateway(data).id
                               ELSE ap_selectedGatewayId
    /\ UNCHANGED <<ap_currentStep, ap_paymentResult, ap_toast, ip_currentStep,
                   ip_paymentResult, is_vars, ap_vars, ip_vars, form_vars, gi>>

AP_loadGatewaysReject ==
    /\ ap_gatewaysCall = "pending"
    /\ ap_gatewaysCall' = "failed"
    /\ AP_showError("Error loading payment gateways")
    /\ UNCHANGED <<ap_currentStep, ap_gateways, ap_selectedGatewayId, ap_paymentResult,
                   ip_currentStep, ip_paymentResult, is_vars, ap_vars, ip_vars, form_vars, gi>>

AP_handleGatewayChange(value) ==
    /\ ap_selectedGatewayId' = value
    /\ UNCHANGED <<ap_currentStep, ap_gateways, ap_gatewaysCall, ap_paymentResult,
                   ap_toast, ip_currentStep, ip_paymentResult, is_vars, ap_vars, ip_vars, form_vars, gi>>

AP_canProceedToPayment == ap_invoiceCount > 0 /\ ap_selectedGatewayId # "undefined"

(* handleNext that lets an empty selection through *)
HandleNextNoCountCheck ==
    /\ ap_currentStep' = IF ap_currentStep = "select" THEN "payment" ELSE ap_currentStep
    /\ UNCHANGED <<ap_gateways, ap_gatewaysCall, ap_selectedGatewayId, ap_paymentResult,
                   ap_toast, ip_currentStep, ip_paymentResult, is_vars, ap_vars, ip_vars, form_vars, gi>>

AP_handleNext ==
    /\ IF ap_currentStep = "select"
       THEN IF ap_invoiceCount = 0
            THEN /\ AP_showError("Please select at least one invoice")
                 /\ UNCHANGED ap_currentStep
            ELSE /\ ap_currentStep' = "payment"
                 /\ UNCHANGED ap_toast
       ELSE UNCHANGED <<ap_currentStep, ap_toast>>
    /\ UNCHANGED <<ap_gateways, ap_gatewaysCall, ap_selectedGatewayId, ap_paymentResult,
                   ip_currentStep, ip_paymentResult, is_vars, ap_vars, ip_vars, form_vars, gi>>

(* handleBack without its step test *)
HandleBackFromAnyStep ==
    /\ ap_currentStep' = "select"
    /\ UNCHANGED <<ap_gateways, ap_gatewaysCall, ap_selectedGatewayId, ap_paymentResult,
                   ap_toast, ip_currentStep, ip_paymentResult, is_vars, ap_vars, ip_vars, form_vars, gi>>

AP_handleBack ==
    /\ ap_currentStep' = IF ap_currentStep = "payment" THEN "select" ELSE ap_currentStep
    /\ UNCHANGED <<ap_gateways, ap_gatewaysCall, ap_selectedGatewayId, ap_paymentResult,
                   ap_toast, ip_currentStep, ip_paymentResult, is_vars, ap_vars, ip_vars, form_vars, gi>>

AP_handlePaymentSuccess(detail) ==
    /\ ap_paymentResult' = [success |-> TRUE,
                            transactionId |-> detail.transactionId,
                            gatewayTransactionId |-> detail.gatewayTransactionId]
    /\ ap_currentStep' = "confirmation"
    /\ UNCHANGED <<ap_gateways, ap_gatewaysCall, ap_selectedGatewayId, ap_toast,
                   ip_currentStep, ip_paymentResult, is_vars, ap_vars, ip_vars, form_vars, gi>>

(* handlePaymentFailure that also sends the user back to the selection *)
HandlePaymentFailureStartsOver(message) ==
    /\ AP_showError(message)
    /\ ap_currentStep' = "select"
    /\ UNCHANGED <<ap_gateways, ap_gatewaysCall, ap_selectedGatewayId,
                   ap_paymentResult, ip_currentStep, ip_paymentResult, is_vars,
                   ap_vars, ip_vars, form_vars, gi>>

AP_handlePaymentFailure(message) ==
    /\ AP_showError(message)
    /\ UNCHANGED <<ap_currentStep, ap_gateways, ap_gatewaysCall, ap_selectedGatewayId,
                   ap_paymentResult, ip_currentStep, ip_paymentResult, is_vars,
                   ap_vars, ip_vars, form_vars, gi>>

IP_handlePaymentSuccess(detail) ==
    /\ ip_paymentResult' = [success |-> TRUE,
                            transactionId |-> detail.transactionId,
                            gatewayTransactionId |-> detail.gatewayTransactionId]
    /\ ip_currentStep' = "confirmation"
    /\ UNCHANGED <<ap_currentStep, ap_gateways, ap_gatewaysCall, ap_selectedGatewayId,
                   ap_paymentResult, ap_toast, is_vars, ap_vars, ip_vars, form_vars, gi>>


----------------------------------------------------------------------------
(* PaymentForm *)

(* handleSubmit invocations the model lets run side by side *)
MaxInFlight == 2

GatewayTypes == {"Stripe", "Authorize.Net"}

(* what a step dispatches: a toast (ShowToastEvent variant) and a custom event *)
Out(toast, event) == [toast |-> toast, event |-> event]
Nothing == Out("none", "none")

RemoveAt(s, i) == [j \in 1..(Len(s) - 1) |-> IF j < i THEN s[j] ELSE s[j + 1]]

PF_isStripe == pf_gatewayConfig = "Stripe"

PF_canSubmit ==
    IF pf_isLoading THEN FALSE
    ELSE IF pf_amount <= 0 THEN FALSE
    ELSE IF pf_useNewCard THEN pf_cardValid
    ELSE pf_selectedPaymentMethodId \notin {"undefined", "null"}

(* the parent binds a new amount *)
PF_setAmount(a) ==
    /\ pf_amount' = a
    /\ pf_out' = Nothing
    /\ UNCHANGED <<pf_isLoading, pf_gatewayConfig, pf_configCall, pf_cardElement,
                   pf_paymentMethods, pf_methodsCall, pf_selectedPaymentMethodId,
                   pf_useNewCard, pf_cardValid, pf_submits, screen_vars, ach_vars, cc_vars>>

(* loadGatewayConfig that drops the busy flag as soon as the configuration is in *)
GatewayConfigClearsLoadingEarly(gatewayType) ==
    /\ pf_configCall = "config"
    /\ pf_gatewayConfig' = gatewayType
    /\ pf_configCall' = "library"
    /\ pf_isLoading' = FALSE
    /\ pf_out' = Nothing
    /\ UNCHANGED <<pf_amount, pf_cardElement, pf_paymentMethods,
                   pf_methodsCall, pf_selectedPaymentMethodId, pf_useNewCard,
                   pf_cardValid, pf_submits, screen_vars, ach_vars, cc_vars>>

(* loadGatewayConfig after getGatewayConfig: initializeGatewayLibrary goes on
   to load the gateway's script, which is not on the page yet *)
PF_getGatewayConfigResolve(gatewayType) ==
    /\ pf_configCall = "config"
    /\ pf_gatewayConfig' = gatewayType
    /\ pf_configCall' = "library"
    /\ pf_out' = Nothing
    /\ UNCHANGED <<pf_amount, pf_isLoading, pf_cardElement, pf_paymentMethods,
                   pf_methodsCall, pf_selectedPaymentMethodId, pf_useNewCard,
                   pf_cardValid, pf_submits, screen_vars, ach_vars, cc_vars>>

PF_getGatewayConfigReject ==
    /\ pf_configCall = "config"
    /\ pf_configCall' = "done"
    /\ pf_out' = Out("error", "none")
    /\ pf_isLoading' = FALSE
    /\ UNCHANGED <<pf_amount, pf_gatewayConfig, pf_cardElement, pf_paymentMethods,
                   pf_methodsCall, pf_selectedPaymentMethodId, pf_useNewCard,
                   pf_cardValid, pf_submits, screen_vars, ach_vars, cc_vars>>

(* the script loaded: initializeStripe creates the card element and schedules
   its mount; then loadGatewayConfig's finally *)
PF_loadScriptResolve ==
    /\ pf_configCall = "library"
    /\ pf_configCall' = "done"
    /\ pf_cardElement' = IF PF_isStripe THEN "created" ELSE pf_cardElement
    /\ pf_isLoading' = FALSE
    /\ pf_out' = Nothing
    /\ UNCHANGED <<pf_amount, pf_gatewayConfig, pf_paymentMethods, pf_methodsCall,
                   pf_selectedPaymentMethodId, pf_useNewCard, pf_cardValid,
                   pf_submits, screen_vars, ach_vars, cc_vars>>

PF_loadScriptReject ==
    /\ pf_configCall = "library"
    /\ pf_configCall' = "done"
    /\ pf_isLoading' = FALSE
    /\ pf_out' = Out("error", "none")
    /\ UNCHANGED <<pf_amount, pf_gatewayConfig, pf_cardElement, pf_paymentMethods,
                   pf_methodsCall, pf_selectedPaymentMethodId, pf_useNewCard,
                   pf_cardValid, pf_submits, screen_vars, ach_vars, cc_vars>>

(* the 100 ms timer of initializeStripe: mounts the element and listens for
   its changes if the container is in the template at that moment *)
PF_mountCardElement(containerFound) ==
    /\ pf_cardElement = "created"
    /\ pf_cardElement' = IF containerFound THEN "mounted" ELSE "unmounted"
    /\ pf_out' = Nothing
    /\ UNCHANGED <<pf_amount, pf_isLoading, pf_gatewayConfig, pf_configCall,
                   pf_paymentMethods, pf_methodsCall, pf_selectedPaymentMethodId,
                   pf_useNewCard, pf_cardValid, pf_submits, screen_vars, ach_vars, cc_vars>>

PF_handleStripeCardChange(complete, error) ==
    /\ pf_cardElement = "mounted"
    /\ pf_cardValid' = complete
    /\ pf_out' = IF error THEN Out("error", "none") ELSE Nothing
    /\ UNCHANGED <<pf_amount, pf_isLoading, pf_gatewayConfig, pf_configCall,
                   pf_cardElement, pf_paymentMethods, pf_methodsCall,
                   pf_selectedPaymentMethodId, pf_useNewCard, pf_submits, screen_vars, ach_vars, cc_vars>>

(* methods: the payment methods that are not expired *)
PF_loadPaymentMethodsResolve(methods) ==
    /\ pf_methodsCall = "pending"
    /\ pf_methodsCall' = "done"
    /\ pf_paymentMethods' = methods
    /\ pf_useNewCard' = (Len(methods) = 0)
    /\ pf_out' = Nothing
    /\ UNCHANGED <<pf_amount, pf_isLoading, pf_gatewayConfig, pf_configCall,
                   pf_cardElement, pf_selectedPaymentMethodId, pf_cardValid,
                   pf_submits, screen_vars, ach_vars, cc_vars>>

PF_loadPaymentMethodsReject ==
    /\ pf_methodsCall = "pending"
    /\ pf_methodsCall' = "failed"
    /\ pf_out' = Nothing
    /\ UNCHANGED <<pf_amount, pf_isLoading, pf_gatewayConfig, pf_configCall,
                   pf_cardElement, pf_paymentMethods, pf_selectedPaymentMethodId,
                   pf_useNewCard, pf_cardValid, pf_submits, screen_vars, ach_vars, cc_vars>>

PF_handlePaymentMethodChange(value) ==
    /\ pf_selectedPaymentMethodId' = value
    /\ pf_useNewCard' = FALSE
    /\ pf_out' = Nothing
    /\ UNCHANGED <<pf_amount, pf_isLoading, pf_gatewayConfig, pf_configCall,
                   pf_cardElement, pf_paymentMethods, pf_methodsCall, pf_cardValid,
                   pf_submits, screen_vars, ach_vars, cc_vars>>

PF_handleUseNewCard ==
    /\ pf_useNewCard' = TRUE
    /\ pf_selectedPaymentMethodId' = "null"
    /\ pf_out' = Nothing
    /\ UNCHANGED <<pf_amount, pf_isLoading, pf_gatewayConfig, pf_configCall,
                   pf_cardElement, pf_paymentMethods, pf_methodsCall, pf_cardValid,
                   pf_submits, screen_vars, ach_vars, cc_vars>>

(* the instrument fields of paymentData, built when processPayment is called *)
PaymentData(paymentToken) ==
    [pc |-> "process",
     paymentMethodId |-> IF pf_useNewCard THEN "null" ELSE pf_selectedPaymentMethodId,
     cardToken |-> IF pf_useNewCard THEN paymentToken ELSE "null"]

(* handleSubmit up to its first await that leaves the component: createToken
   for a new card on Stripe, processPayment for a saved method.  For a new
   card without Stripe or without a card element tokenizeCard returns null at
   once and handleSubmit returns through finally. *)
PF_handleSubmit ==
    /\ Len(pf_submits) < MaxInFlight
    /\ pf_out' = Nothing
    /\ IF pf_useNewCard
       THEN IF PF_isStripe /\ pf_cardElement # "none"
            THEN /\ pf_submits' = Append(pf_submits,
                                         [pc |-> "token", paymentMethodId |-> "null",
                                          cardToken |-> "null"])
                 /\ pf_isLoading' = TRUE
            ELSE /\ pf_isLoading' = FALSE
                 /\ UNCHANGED pf_submits
       ELSE /\ pf_submits' = Append(pf_submits, PaymentData("undefined"))
            /\ pf_isLoading' = TRUE
    /\ UNCHANGED <<pf_amount, pf_gatewayConfig, pf_configCall, pf_cardElement,
                   pf_paymentMethods, pf_methodsCall, pf_selectedPaymentMethodId,
                   pf_useNewCard, pf_cardValid, screen_vars, ach_vars, cc_vars>>

(* createToken settled for invocation i: a token, or an error (returned or
   thrown), which is shown and ends the invocation *)
PF_createTokenSettled(i, gotToken) ==
    /\ i \in DOMAIN pf_submits
    /\ pf_submits[i].pc = "token"
    /\ IF gotToken
       THEN /\ pf_submits' = [pf_submits EXCEPT ![i] = PaymentData("tok_1")]
            /\ pf_out' = Nothing
            /\ UNCHANGED pf_isLoading
       ELSE /\ pf_submits' = RemoveAt(pf_submits, i)
            /\ pf_out' = Out("error", "none")
            /\ pf_isLoading' = FALSE
    /\ UNCHANGED <<pf_amount, pf_gatewayConfig, pf_configCall, pf_cardElement,
                   pf_paymentMethods, pf_methodsCall, pf_selectedPaymentMethodId,
                   pf_useNewCard, pf_cardValid, screen_vars, ach_vars, cc_vars>>

PF_processPaymentResolve(i, success) ==
    /\ i \in DOMAIN pf_submits
    /\ pf_submits[i].pc = "process"
    /\ pf_submits' = RemoveAt(pf_submits, i)
    /\ pf_out' = IF success THEN Out("success", "paymentsuccess")
                 ELSE Out("error", "paymentfailure")
    /\ pf_isLoading' = FALSE
    /\ UNCHANGED <<pf_amount, pf_gatewayConfig, pf_configCall, pf_cardElement,
                   pf_paymentMethods, pf_methodsCall, pf_selectedPaymentMethodId,
                   pf_useNewCard, pf_cardValid, screen_vars, ach_vars, cc_vars>>

PF_processPaymentReject(i) ==
    /\ i \in DOMAIN pf_submits
    /\ pf_submits[i].pc = "process"
    /\ pf_submits' = RemoveAt(pf_submits, i)
    /\ pf_out' = Out("error", "none")
    /\ pf_isLoading' = FALSE
    /\ UNCHANGED <<pf_amount, pf_gatewayConfig, pf_configCall, pf_cardElement,
                   pf_paymentMethods, pf_methodsCall, pf_selectedPaymentMethodId,
                   pf_useNewCard, pf_cardValid, screen_vars, ach_vars, cc_vars>>

----------------------------------------------------------------------------
(* AchPaymentEntry.  Text is a sequence of characters. *)

Digits == {"0", "1", "2", "3", "4", "5", "6", "7", "8", "9"}

(* value.replace(/\D/g, '') *)
StripNonDigits(value) == SelectSeq(value, LAMBDA c : c \in Digits)

(* what the user may have in an account number field *)
AccountNumberInputs ==
    { <<>>, <<"1", "2", "3", "4">>, <<"1", "2", "-", "3", "4">>, <<"9", "8", "7", "6">> }

(* the field initialisers, which reset() restores except that it sets error
   to null *)
AchInitial ==
    [accountType |-> "checking", nameOnAccount |-> <<>>, bankName |-> <<>>,
     routingNumber |-> <<>>, accountNumber |-> <<>>, confirmAccountNumber |-> <<>>,
     amount |-> 0, savePaymentMethod |-> FALSE, authorized |-> FALSE,
     error |-> "undefined", isProcessing |-> FALSE]

NoAchEvent == [event |-> "none", accountNumber |-> <<>>]

(* accountNumber && confirmAccountNumber && accountNumber !== confirmAccountNumber *)
ACH_accountNumberMismatch ==
    /\ ach.accountNumber # <<>>
    /\ ach.confirmAccountNumber # <<>>
    /\ ach.accountNumber # ach.confirmAccountNumber

ACH_handleAccountNumberChange(value) ==
    /\ ach' = [ach EXCEPT !.accountNumber = StripNonDigits(value)]
    /\ ach_out' = NoAchEvent
    /\ UNCHANGED <<screen_vars, pf_vars, cc_vars>>

ACH_handleConfirmAccountChange(value) ==
    /\ ach' = [ach EXCEPT !.confirmAccountNumber = StripNonDigits(value)]
    /\ ach_out' = NoAchEvent
    /\ UNCHANGED <<screen_vars, pf_vars, cc_vars>>

ACH_handleAuthorizationChange(checked) ==
    /\ ach' = [ach EXCEPT !.authorized = checked]
    /\ ach_out' = NoAchEvent
    /\ UNCHANGED <<screen_vars, pf_vars, cc_vars>>

(* handleAccountTypeChange, handleNameChange, handleBankNameChange,
   handleSaveMethodChange and handleAmountChange: the field takes the value
   of the event, the amount after parseFloat(value) || 0 *)
ACH_handleFieldChange(field, value) ==
    /\ ach' = [ach EXCEPT ![field] = value]
    /\ ach_out' = NoAchEvent
    /\ UNCHANGED <<screen_vars, pf_vars, cc_vars>>

(* a digit filter that lets every character through *)
RoutingChangeKeepsAll(value) ==
    /\ ach' = [ach EXCEPT !.routingNumber = value]
    /\ ach_out' = NoAchEvent
    /\ UNCHANGED <<screen_vars, pf_vars, cc_vars>>

ACH_handleRoutingChange(value) ==
    /\ ach' = [ach EXCEPT !.routingNumber = StripNonDigits(value)]
    /\ ach_out' = NoAchEvent
    /\ UNCHANGED <<screen_vars, pf_vars, cc_vars>>

(* isSubmitDisabled without its first operand *)
SubmitDisabledIgnoresProcessing ==
    \/ ~ach.authorized
    \/ ach.nameOnAccount = <<>>
    \/ ach.routingNumber = <<>>
    \/ ach.accountNumber = <<>>
    \/ ach.confirmAccountNumber = <<>>
    \/ ACH_accountNumberMismatch
    \/ Len(ach.routingNumber) # 9
    \/ Len(ach.accountNumber) < 4

(* isSubmitDisabled; showAmount keeps its default, false, so the amount is
   not looked at *)
ACH_isSubmitDisabled ==
    \/ ach.isProcessing
    \/ ~ach.authorized
    \/ ach.nameOnAccount = <<>>
    \/ ach.routingNumber = <<>>
    \/ ach.accountNumber = <<>>
    \/ ach.confirmAccountNumber = <<>>
    \/ ACH_accountNumberMismatch
    \/ Len(ach.routingNumber) # 9
    \/ Len(ach.accountNumber) < 4

(* The form template: the submit button is disabled while isSubmitDisabled
   holds. *)
SubmitButtonEnabled == ~ACH_isSubmitDisabled

(* allValid: whether every lightning-input of the template reports valid *)
ACH_handleSubmit(allValid) ==
    /\ IF ~allValid
       THEN /\ UNCHANGED ach
            /\ ach_out' = NoAchEvent
       ELSE IF ACH_accountNumberMismatch
       THEN /\ ach' = [ach EXCEPT !.error = "Account numbers do not match"]
            /\ ach_out' = NoAchEvent
       ELSE IF ~ach.authorized
       THEN /\ ach' = [ach EXCEPT !.error = "Please authorize the ACH debit"]
            /\ ach_out' = NoAchEvent
       ELSE /\ ach' = [ach EXCEPT !.error = "null", !.isProcessing = TRUE]
            /\ ach_out' = [event |-> "submit", accountNumber |-> ach.accountNumber]
    /\ UNCHANGED <<screen_vars, pf_vars, cc_vars>>

ACH_setProcessing(isProcessing) ==
    /\ ach' = [ach EXCEPT !.isProcessing = isProcessing]
    /\ ach_out' = NoAchEvent
    /\ UNCHANGED <<screen_vars, pf_vars, cc_vars>>

ACH_setError(errorMessage) ==
    /\ ach' = [ach EXCEPT !.error = errorMessage, !.isProcessing = FALSE]
    /\ ach_out' = NoAchEvent
    /\ UNCHANGED <<screen_vars, pf_vars, cc_vars>>

ACH_reset ==
    /\ ach' = [AchInitial EXCEPT !.error = "null"]
    /\ ach_out' = NoAchEvent
    /\ UNCHANGED <<screen_vars, pf_vars, cc_vars>>

----------------------------------------------------------------------------
(* CallCenterPayment *)

(* the most a cart line's quantity is raised to *)
MaxQuantity == 1


CallCenterInitial ==
    [accountSearchTerm |-> "", accountResults |-> <<>>, selectedAccount |-> "null",
     showAccountSearch |-> TRUE, productSearchTerm |-> "", productResults |-> <<>>,
     cartItems |-> <<>>, paymentMethods |-> <<>>, selectedPaymentMethodId |-> "",
     paymentType |-> "Card", showNewPaymentForm |-> FALSE, savePaymentMethod |-> FALSE,
     sourceDescription |-> "", cardNumber |-> "", expirationMonth |-> "",
     expirationYear |-> "", cvv |-> "", billingZip |-> "", routingNumber |-> "",
     accountNumber |-> "", accountType |-> "Checking", newAccountName |-> "",
     isLoading |-> FALSE,
     isSearchingAccounts |-> FALSE, isSearchingProducts |-> FALSE]

(* no timer armed, no call in flight *)
NothingPending ==
    [accountSearchTimeout |-> FALSE, productSearchTimeout |-> FALSE,
     searchAccounts |-> <<>>, searchProducts |-> <<>>, getPaymentMethods |-> <<>>,
     createQuickAccount |-> <<>>, processCallCenterPayment |-> <<>>]

(* ShowToastEvent: variant, title, and the message where it is a fixed text *)
Toast(variant, title, message) == [variant |-> variant, title |-> title, message |-> message]
NoToast == Toast("none", "", "")

(* backend data: the accounts a search finds, an account's payment methods,
   the products a search finds *)
AccountsFound == <<"acc1">>
MethodsOf(accountId) ==
    IF accountId = "acc1"
    THEN <<[Id |-> "pm1", isPrimary |-> TRUE]>>
    ELSE <<>>
ProductsFound == <<[id |-> "p1", unitPrice |-> 10]>>

(* the backend calls of the component that have not settled *)
CC_callsInFlight ==
    Len(cc_pending.searchAccounts) + Len(cc_pending.searchProducts)
      + Len(cc_pending.getPaymentMethods) + Len(cc_pending.createQuickAccount)
      + Len(cc_pending.processCallCenterPayment)

CC_hasCartItems == Len(cc.cartItems) > 0

CC_noAccountSelected == cc.selectedAccount = "null"

CC_canProcessPayment ==
    /\ cc.selectedAccount # "null"
    /\ CC_hasCartItems
    /\ (cc.selectedPaymentMethodId # "" \/ cc.showNewPaymentForm)

CC_handleAccountSearch(value) ==
    /\ cc' = [cc EXCEPT !.accountSearchTerm = value,
                        !.accountResults = IF Len(value) >= 3 THEN @ ELSE <<>>]
    /\ cc_pending' = [cc_pending EXCEPT !.accountSearchTimeout =
                                            IF Len(value) >= 3 THEN TRUE ELSE @]
    /\ cc_out' = NoToast
    /\ UNCHANGED <<screen_vars, pf_vars, ach_vars>>

(* the debounce timer fires: performAccountSearch up to its await *)
CC_performAccountSearch ==
    /\ cc_pending.accountSearchTimeout
    /\ CC_callsInFlight < MaxInFlight
    /\ cc' = [cc EXCEPT !.isSearchingAccounts = TRUE]
    /\ cc_pending' = [cc_pending EXCEPT
                         !.accountSearchTimeout = FALSE,
                         !.searchAccounts = Append(@, cc.accountSearchTerm)]
    /\ cc_out' = NoToast
    /\ UNCHANGED <<screen_vars, pf_vars, ach_vars>>

CC_searchAccountsSettled(i, ok) ==
    /\ i \in DOMAIN cc_pending.searchAccounts
    /\ cc' = [cc EXCEPT !.accountResults = IF ok THEN AccountsFound ELSE @,
                        !.isSearchingAccounts = FALSE]
    /\ cc_pending' = [cc_pending EXCEPT !.searchAccounts = RemoveAt(@, i)]
    /\ cc_out' = IF ok THEN NoToast ELSE Toast("error", "Error searching accounts", "")
    /\ UNCHANGED <<screen_vars, pf_vars, ach_vars>>

(* selectAccount, with loadPaymentMethods up to its await *)
CC_selectAccount(accountId) ==
    /\ \E j \in DOMAIN cc.accountResults : cc.accountResults[j] = accountId
    /\ CC_callsInFlight < MaxInFlight
    /\ cc' = [cc EXCEPT !.selectedAccount = accountId,
                        !.showAccountSearch = FALSE,
                        !.accountResults = <<>>]
    /\ cc_pending' = [cc_pending EXCEPT !.getPaymentMethods = Append(@, accountId)]
    /\ cc_out' = NoToast
    /\ UNCHANGED <<screen_vars, pf_vars, ach_vars>>

CC_clearAccount ==
    /\ cc' = [cc EXCEPT !.selectedAccount = "null", !.showAccountSearch = TRUE,
                        !.accountSearchTerm = "", !.paymentMethods = <<>>,
                        !.selectedPaymentMethodId = ""]
    /\ cc_out' = NoToast
    /\ UNCHANGED <<cc_pending, screen_vars, pf_vars, ach_vars>>

(* handleNewAccountField for the name input of the new-account modal *)
CC_handleNewAccountField(value) ==
    /\ cc' = [cc EXCEPT !.newAccountName = value]
    /\ cc_out' = NoToast
    /\ UNCHANGED <<cc_pending, screen_vars, pf_vars, ach_vars>>

(* createAccount up to its await *)
CC_createAccount ==
    /\ IF cc.newAccountName = ""
       THEN /\ cc_out' = Toast("error", "Validation Error", "Account name is required")
            /\ UNCHANGED <<cc, cc_pending>>
       ELSE /\ CC_callsInFlight < MaxInFlight
            /\ cc' = [cc EXCEPT !.isLoading = TRUE]
            /\ cc_pending' = [cc_pending EXCEPT
                                 !.createQuickAccount = Append(@, cc.newAccountName)]
            /\ cc_out' = NoToast
    /\ UNCHANGED <<screen_vars, pf_vars, ach_vars>>

(* createAccount after its await: the new account becomes the selected one
   and closeNewAccountModal empties the modal's fields; then finally.  The
   payment methods are neither cleared nor loaded. *)
CC_createAccountSettled(i, ok) ==
    /\ i \in DOMAIN cc_pending.createQuickAccount
    /\ cc' = IF ok
             THEN [cc EXCEPT !.selectedAccount = "accNew", !.showAccountSearch = FALSE,
                             !.newAccountName = "", !.isLoading = FALSE]
             ELSE [cc EXCEPT !.isLoading = FALSE]
    /\ cc_pending' = [cc_pending EXCEPT !.createQuickAccount = RemoveAt(@, i)]
    /\ cc_out' = IF ok THEN Toast("success", "Account Created", "")
                 ELSE Toast("error", "Error creating account", "")
    /\ UNCHANGED <<screen_vars, pf_vars, ach_vars>>

(* pm.find(primary), else the first *)
PrimaryOrFirst(methods) ==
    IF \E j \in DOMAIN methods : methods[j].isPrimary
    THEN methods[CHOOSE j \in DOMAIN methods :
                    /\ methods[j].isPrimary
                    /\ \A k \in 1..(j - 1) : ~methods[k].isPrimary].Id
    ELSE methods[1].Id

CC_getPaymentMethodsSettled(i, ok) ==
    /\ i \in DOMAIN cc_pending.getPaymentMethods
    /\ LET methods == MethodsOf(cc_pending.getPaymentMethods[i])
       IN cc' = IF ok
                THEN [cc EXCEPT !.paymentMethods = methods,
                                !.selectedPaymentMethodId =
                                    IF Len(methods) > 0 THEN PrimaryOrFirst(methods) ELSE @]
                ELSE cc
    /\ cc_pending' = [cc_pending EXCEPT !.getPaymentMethods = RemoveAt(@, i)]
    /\ cc_out' = IF ok THEN NoToast ELSE Toast("error", "Error loading payment methods", "")
    /\ UNCHANGED <<screen_vars, pf_vars, ach_vars>>

CC_handleProductSearch(value) ==
    /\ cc' = [cc EXCEPT !.productSearchTerm = value,
                        !.productResults = IF Len(value) >= 2 THEN @ ELSE <<>>]
    /\ cc_pending' = [cc_pending EXCEPT !.productSearchTimeout =
                                            IF Len(value) >= 2 THEN TRUE ELSE @]
    /\ cc_out' = NoToast
    /\ UNCHANGED <<screen_vars, pf_vars, ach_vars>>

(* the debounce timer fires: performProductSearch up to its await *)
CC_performProductSearch ==
    /\ cc_pending.productSearchTimeout
    /\ CC_callsInFlight < MaxInFlight
    /\ cc' = [cc EXCEPT !.isSearchingProducts = TRUE]
    /\ cc_pending' = [cc_pending EXCEPT
                         !.productSearchTimeout = FALSE,
                         !.searchProducts = Append(@, cc.productSearchTerm)]
    /\ cc_out' = NoToast
    /\ UNCHANGED <<screen_vars, pf_vars, ach_vars>>

CC_searchProductsSettled(i, ok) ==
    /\ i \in DOMAIN cc_pending.searchProducts
    /\ cc' = [cc EXCEPT !.productResults = IF ok THEN ProductsFound ELSE @,
                        !.isSearchingProducts = FALSE]
    /\ cc_pending' = [cc_pending EXCEPT !.searchProducts = RemoveAt(@, i)]
    /\ cc_out' = IF ok THEN NoToast ELSE Toast("error", "Error searching products", "")
    /\ UNCHANGED <<screen_vars, pf_vars, ach_vars>>

(* NaN, kept as a value outside the quantities the model uses: every
   comparison with it is false and arithmetic on it gives NaN. *)
NaN == -999

(* parseInt(event.target.value, 10) *)
ParseInt(inp) == IF inp.kind = "nan" THEN NaN ELSE inp.val

(* item.quantity * item.unitPrice *)
Times(a, b) == IF a = NaN \/ b = NaN THEN NaN ELSE a * b

CC_addToCart(productId) ==
    /\ \E j \in DOMAIN cc.productResults : cc.productResults[j].id = productId
    /\ \A j \in DOMAIN cc.cartItems :
          cc.cartItems[j].productId = productId => cc.cartItems[j].quantity < MaxQuantity
    /\ LET product == cc.productResults[CHOOSE j \in DOMAIN cc.productResults :
                                            cc.productResults[j].id = productId]
           items == IF \E j \in DOMAIN cc.cartItems : cc.cartItems[j].productId = productId
                    THEN [j \in DOMAIN cc.cartItems |->
                            IF cc.cartItems[j].productId = productId
                            THEN [cc.cartItems[j] EXCEPT
                                     !.quantity = IF @ = NaN THEN NaN ELSE @ + 1,
                                     !.totalPrice =
                                        Times(IF cc.cartItems[j].quantity = NaN
                                              THEN NaN ELSE cc.cartItems[j].quantity + 1,
                                              cc.cartItems[j].unitPrice)]
                            ELSE cc.cartItems[j]]
                    ELSE Append(cc.cartItems,
                                [productId |-> product.id, quantity |-> 1,
                                 unitPrice |-> product.unitPrice,
                                 totalPrice |-> product.unitPrice])
       IN cc' = [cc EXCEPT !.cartItems = items,
                           !.productSearchTerm = "",
                           !.productResults = <<>>]
    /\ cc_out' = NoToast
    /\ UNCHANGED <<cc_pending, screen_vars, pf_vars, ach_vars>>

CC_removeFromCart(productId) ==
    /\ cc' = [cc EXCEPT !.cartItems =
                          SelectSeq(@, LAMBDA item : item.productId # productId)]
    /\ cc_out' = NoToast
    /\ UNCHANGED <<cc_pending, screen_vars, pf_vars, ach_vars>>

(* newQuantity <= 0 is false for NaN, so NaN is stored like a quantity; find
   takes the first item of that product *)
CC_updateQuantity(productId, value) ==
    LET newQuantity == ParseInt(value)
        found == {j \in DOMAIN cc.cartItems : cc.cartItems[j].productId = productId}
    IN IF newQuantity # NaN /\ newQuantity <= 0
       THEN CC_removeFromCart(productId)
       ELSE /\ cc' = [cc EXCEPT !.cartItems =
                        [j \in DOMAIN cc.cartItems |->
                           IF j \in found /\ \A k \in found : j <= k
                           THEN [cc.cartItems[j] EXCEPT
                                    !.quantity = newQuantity,
                                    !.totalPrice = Times(newQuantity, cc.cartItems[j].unitPrice)]
                           ELSE cc.cartItems[j]]]
            /\ cc_out' = NoToast
            /\ UNCHANGED <<cc_pending, screen_vars, pf_vars, ach_vars>>

(* confirm(...) answered by the agent *)
CC_clearCart(confirmed) ==
    /\ cc' = [cc EXCEPT !.cartItems = IF confirmed THEN <<>> ELSE @]
    /\ cc_out' = NoToast
    /\ UNCHANGED <<cc_pending, screen_vars, pf_vars, ach_vars>>

(* cartTotal: reduce((total, item) => total + item.quantity * item.unitPrice, 0) *)
RECURSIVE CC_cartTotal(_)
CC_cartTotal(items) ==
    IF items = <<>> THEN 0
    ELSE LET rest == CC_cartTotal(Tail(items))
             price == Times(Head(items).quantity, Head(items).unitPrice)
         IN IF rest = NaN \/ price = NaN THEN NaN ELSE price + rest

CC_handlePaymentMethodChange(value) ==
    /\ cc' = [cc EXCEPT !.selectedPaymentMethodId = value, !.showNewPaymentForm = FALSE]
    /\ cc_out' = NoToast
    /\ UNCHANGED <<cc_pending, screen_vars, pf_vars, ach_vars>>

CC_showNewPayment ==
    /\ cc' = [cc EXCEPT !.showNewPaymentForm = TRUE, !.selectedPaymentMethodId = ""]
    /\ cc_out' = NoToast
    /\ UNCHANGED <<cc_pending, screen_vars, pf_vars, ach_vars>>

(* this[field] = value, for the fields the payment inputs name *)
CC_handlePaymentField(field, value) ==
    /\ cc' = [cc EXCEPT ![field] = value]
    /\ cc_out' = NoToast
    /\ UNCHANGED <<cc_pending, screen_vars, pf_vars, ach_vars>>

CC_handlePaymentTypeChange(value) ==
    /\ cc' = [cc EXCEPT !.paymentType = value]
    /\ cc_out' = NoToast
    /\ UNCHANGED <<cc_pending, screen_vars, pf_vars, ach_vars>>

(* s.slice(-4), for the card and bank account numbers the model types; a
   text of at most four characters is its own slice *)
LastFour(s) ==
    CASE s = "4111111111111111" -> "1111"
      [] s = "000123456789" -> "6789"
      [] OTHER -> s

(* detectCardType: null without a number, else the brand of the leading
   digits, for the card numbers the model types *)
detectCardType(cardNumber) ==
    IF cardNumber = "" THEN "null"
    ELSE CASE cardNumber = "4111111111111111" -> "Visa"
           [] OTHER -> "Unknown"

(* a validatePayment that does not look at the fields of the new-payment form *)
ValidatePaymentSkipsFields ==
    IF cc.selectedAccount = "null" THEN "Please select a customer account"
    ELSE IF ~CC_hasCartItems THEN "Cart cannot be empty"
    ELSE IF cc.selectedPaymentMethodId = "" /\ ~cc.showNewPaymentForm
         THEN "Please select or enter a payment method"
    ELSE ""

(* the message validatePayment shows, "" when it returns true *)
CC_validatePayment ==
    IF cc.selectedAccount = "null" THEN "Please select a customer account"
    ELSE IF ~CC_hasCartItems THEN "Cart cannot be empty"
    ELSE IF cc.selectedPaymentMethodId = "" /\ ~cc.showNewPaymentForm
         THEN "Please select or enter a payment method"
    ELSE IF cc.showNewPaymentForm /\ cc.paymentType = "Card"
            /\ (cc.cardNumber = "" \/ cc.expirationMonth = ""
                \/ cc.expirationYear = "" \/ cc.cvv = "")
         THEN "Please fill in all card fields"
    ELSE IF cc.showNewPaymentForm /\ cc.paymentType # "Card"
            /\ (cc.routingNumber = "" \/ cc.accountNumber = "")
         THEN "Please fill in all bank account fields"
    ELSE ""

(* processPayment up to its await *)
CC_processPayment ==
    /\ IF CC_validatePayment # ""
       THEN /\ cc_out' = Toast("error", "Validation Error", CC_validatePayment)
            /\ UNCHANGED <<cc, cc_pending>>
       ELSE /\ CC_callsInFlight < MaxInFlight
            /\ cc' = [cc EXCEPT !.isLoading = TRUE]
            /\ cc_pending' =
                 [cc_pending EXCEPT !.processCallCenterPayment =
                     Append(@, [accountId |-> cc.selectedAccount,
                                paymentMethodId |-> IF cc.selectedPaymentMethodId = ""
                                                    THEN "null"
                                                    ELSE cc.selectedPaymentMethodId,
                                paymentToken |-> IF cc.showNewPaymentForm
                                                 THEN "tok_simulated" ELSE "null",
                                paymentType |-> cc.paymentType,
                                cardLastFour |-> IF cc.cardNumber = "" THEN "null"
                                                 ELSE LastFour(cc.cardNumber),
                                cardType |-> detectCardType(cc.cardNumber),
                                accountLastFour |-> IF cc.accountNumber = "" THEN "null"
                                                    ELSE LastFour(cc.accountNumber)])]
            /\ cc_out' = NoToast
    /\ UNCHANGED <<screen_vars, pf_vars, ach_vars>>

resetForm(c) ==
    [c EXCEPT !.selectedAccount = "null", !.showAccountSearch = TRUE,
              !.accountSearchTerm = "", !.cartItems = <<>>, !.paymentMethods = <<>>,
              !.selectedPaymentMethodId = "", !.showNewPaymentForm = FALSE,
              !.sourceDescription = "", !.cardNumber = "", !.expirationMonth = "",
              !.expirationYear = "", !.cvv = "", !.billingZip = "",
              !.routingNumber = "", !.accountNumber = ""]

(* processPayment without a finally: a thrown call leaves the flag raised *)
PaymentSettledThrowKeepsLoading(i, outcome) ==
    /\ i \in DOMAIN cc_pending.processCallCenterPayment
    /\ cc' = CASE outcome = "success" -> [resetForm(cc) EXCEPT !.isLoading = FALSE]
               [] outcome = "failure" -> [cc EXCEPT !.isLoading = FALSE]
               [] OTHER -> cc
    /\ cc_pending' = [cc_pending EXCEPT !.processCallCenterPayment = RemoveAt(@, i)]
    /\ cc_out' = CASE outcome = "success" -> Toast("success", "Payment Successful", "")
                   [] outcome = "failure" -> Toast("error", "Payment Failed", "")
                   [] OTHER -> Toast("error", "Error processing payment", "")
    /\ UNCHANGED <<screen_vars, pf_vars, ach_vars>>

(* processPayment that clears the form whatever the outcome *)
PaymentSettledAlwaysResets(i, outcome) ==
    /\ i \in DOMAIN cc_pending.processCallCenterPayment
    /\ cc' = [resetForm(cc) EXCEPT !.isLoading = FALSE]
    /\ cc_pending' = [cc_pending EXCEPT !.processCallCenterPayment = RemoveAt(@, i)]
    /\ cc_out' = CASE outcome = "success" -> Toast("success", "Payment Successful", "")
                   [] outcome = "failure" -> Toast("error", "Payment Failed", "")
                   [] OTHER -> Toast("error", "Error processing payment", "")
    /\ UNCHANGED <<screen_vars, pf_vars, ach_vars>>

(* processPayment after its await: the result reports success or failure, or
   the call threw; then finally *)
CC_processPaymentSettled(i, outcome) ==
    /\ i \in DOMAIN cc_pending.processCallCenterPayment
    /\ cc' = IF outcome = "success"
             THEN [resetForm(cc) EXCEPT !.isLoading = FALSE]
             ELSE [cc EXCEPT !.isLoading = FALSE]
    /\ cc_pending' = [cc_pending EXCEPT !.processCallCenterPayment = RemoveAt(@, i)]
    /\ cc_out' = CASE outcome = "success" -> Toast("success", "Payment Successful", "")
                   [] outcome = "failure" -> Toast("error", "Payment Failed", "")
                   [] OTHER -> Toast("error", "Error processing payment", "")
    /\ UNCHANGED <<screen_vars, pf_vars, ach_vars>>

----------------------------------------------------------------------------
(* GenerateInvoices.  A preview is known by the payment terms it was computed
   for; generatedInvoices is undefined until a generation succeeds. *)

(* the fields after construction and connectedCallback, with loadData at its
   await: loadCall is the Promise.all of getOrderDetails and
   getActiveGateways, previews the previewInvoices calls in flight, generates
   the generateInvoicesFromOrder calls in flight *)
GenerateInitial ==
    [orderData |-> "undefined", selectedGateway |-> "undefined",
     invoicePreview |-> <<>>, generatedInvoices |-> [defined |-> FALSE, rows |-> <<>>],
     error |-> "null", enableAutoPay |-> TRUE, paymentTerms |-> 30,
     isLoading |-> TRUE, isGenerating |-> FALSE,
     loadCall |-> "pending", previews |-> <<>>, generates |-> <<>>,
     previewErrorLogged |-> FALSE, toast |-> NoToast]

(* loadData after Promise.all: on success the order and the default gateway
   are stored and generatePreview is called and awaited; on failure the
   message is stored and finally clears isLoading *)
GI_loadDataSettled(ok, gateways) ==
    /\ gi.loadCall = "pending"
    /\ gi' = IF ok
             THEN [gi EXCEPT !.loadCall = "done", !.orderData = "order",
                             !.selectedGateway =
                                 IF Len(gateways) > 0 THEN DefaultGateway(gateways).id
                                 ELSE @,
                             !.previews = Append(@, [terms |-> gi.paymentTerms,
                                                     fromLoad |-> TRUE]),
                             !.toast = NoToast]
             ELSE [gi EXCEPT !.loadCall = "failed", !.error = "Server error",
                             !.isLoading = FALSE, !.toast = NoToast]
    /\ UNCHANGED <<is_vars, ap_vars, ip_vars, st_vars, form_vars>>

(* generatePreview after its await: the response is stored, or the error is
   only logged; the call loadData awaits then lets loadData reach finally *)
GI_previewSettled(i, ok) ==
    /\ i \in DOMAIN gi.previews
    /\ gi' = [gi EXCEPT !.invoicePreview = IF ok THEN <<gi.previews[i].terms>> ELSE @,
                        !.previewErrorLogged = @ \/ ~ok,
                        !.isLoading = IF gi.previews[i].fromLoad THEN FALSE ELSE @,
                        !.previews = RemoveAt(@, i),
                        !.toast = NoToast]
    /\ UNCHANGED <<is_vars, ap_vars, ip_vars, st_vars, form_vars>>

GI_handleAutoPayChange(checked) ==
    /\ gi' = [gi EXCEPT !.enableAutoPay = checked, !.toast = NoToast]
    /\ UNCHANGED <<is_vars, ap_vars, ip_vars, st_vars, form_vars>>

(* paymentTerms = parseInt(value, 10) || 30, then generatePreview up to its
   await *)
GI_handleTermsChange(value) ==
    /\ Len(gi.previews) + Len(gi.generates) < MaxInFlight
    /\ LET terms == IF ParseInt(value) = NaN \/ ParseInt(value) = 0
                    THEN 30 ELSE ParseInt(value)
       IN gi' = [gi EXCEPT !.paymentTerms = terms,
                           !.previews = Append(@, [terms |-> terms, fromLoad |-> FALSE]),
                           !.toast = NoToast]
    /\ UNCHANGED <<is_vars, ap_vars, ip_vars, st_vars, form_vars>>

(* handleGenerate up to its await *)
GI_handleGenerate ==
    /\ Len(gi.previews) + Len(gi.generates) < MaxInFlight
    /\ gi' = [gi EXCEPT !.isGenerating = TRUE, !.error = "null",
                        !.generates = Append(@, [enableAutoPay |-> gi.enableAutoPay,
                                                 paymentTermsDays |-> gi.paymentTerms]),
                        !.toast = NoToast]
    /\ UNCHANGED <<is_vars, ap_vars, ip_vars, st_vars, form_vars>>

(* a failed generation that also drops the invoices generated before *)
GenerateFailureClearsInvoices(i, ok, invoiceIds) ==
    /\ i \in DOMAIN gi.generates
    /\ gi' = [gi EXCEPT !.generatedInvoices = [defined |-> ok, rows |-> <<>>],
                        !.error = IF ok THEN @ ELSE "Server error",
                        !.toast = IF ok THEN Toast("success", "Success", "")
                                  ELSE Toast("error", "Error", "Server error"),
                        !.isGenerating = FALSE,
                        !.generates = RemoveAt(@, i)]
    /\ UNCHANGED <<is_vars, ap_vars, ip_vars, st_vars, form_vars>>

(* handleGenerate after its await: one row per returned id, its status read
   from enableAutoPay as it is now; or the message of the error is stored and
   shown; then finally *)
GI_generateSettled(i, ok, invoiceIds) ==
    /\ i \in DOMAIN gi.generates
    /\ gi' = IF ok
             THEN [gi EXCEPT !.generatedInvoices =
                                [defined |-> TRUE,
                                 rows |-> [index \in DOMAIN invoiceIds |->
                                             [Id |-> invoiceIds[index],
                                              Status |-> IF gi.enableAutoPay
                                                         THEN "Scheduled" ELSE "Pending"]]],
                             !.toast = Toast("success", "Success", ""),
                             !.isGenerating = FALSE,
                             !.generates = RemoveAt(@, i)]
             ELSE [gi EXCEPT !.error = "Server error",
                             !.toast = Toast("error", "Error", "Server error"),
                             !.isGenerating = FALSE,
                             !.generates = RemoveAt(@, i)]
    /\ UNCHANGED <<is_vars, ap_vars, ip_vars, st_vars, form_vars>>

----------------------------------------------------------------------------
(* The state after construction and connectedCallback: the backend calls are
   pending, nothing is selected. *)
Init ==
    /\ is_invoices = <<>>
    /\ is_selectedInvoices = <<>>
    /\ is_isLoading = TRUE
    /\ is_error = "none"
    /\ is_call = "pending"
    /\ events = <<>>
    /\ ap_accountCredits = <<>>
    /\ ap_creditsCall = "pending"
    /\ ap_applyCredits = FALSE
    /\ ap_creditAmountToApply = 0
    /\ ap_invoiceAllocations = <<>>
    /\ ap_totalAmount = 0
    /\ ap_invoiceCount = 0
    /\ ip_invoice = [data |-> FALSE, balanceDue |-> 0]
    /\ ip_paymentType = "full"
    /\ ip_partialAmount = 0
    /\ ip_gateways = <<>>
    /\ ip_gatewaysCall = "pending"
    /\ ip_selectedGatewayId = "undefined"
    /\ ip_currentStep = "payment"
    /\ ip_paymentResult = NoResult
    /\ ap_currentStep = "select"
    /\ ap_gateways = <<>>
    /\ ap_gatewaysCall = "pending"
    /\ ap_selectedGatewayId = "undefined"
    /\ ap_paymentResult = NoResult
    /\ ap_toast = "none"
    /\ pf_amount = 100
    /\ pf_isLoading = TRUE
    /\ pf_gatewayConfig = "undefined"
    /\ pf_configCall = "config"
    /\ pf_cardElement = "none"
    /\ pf_paymentMethods = <<>>
    /\ pf_methodsCall = "pending"
    /\ pf_selectedPaymentMethodId = "undefined"
    /\ pf_useNewCard = TRUE
    /\ pf_cardValid = FALSE
    /\ pf_submits = <<>>
    /\ pf_out = Nothing
    /\ ach = AchInitial
    /\ ach_out = NoAchEvent
    /\ cc = CallCenterInitial
    /\ cc_pending = NothingPending
    /\ cc_out = NoToast
    /\ gi = GenerateInitial

(* The InvoiceSelector component: its load and its event handlers; every
   dispatched event is taken by the parent's listener in the same step. *)
NextSelector ==
    \/ \E data \in OpenInvoiceData : IS_loadInvoicesResolve(data)
    \/ IS_loadInvoicesReject
    \/ \E id \in InvoiceIds, checked \in BOOLEAN : IS_handleInvoiceSelect(id, checked)
    \/ \E id \in InvoiceIds, t \in PaymentTypes : IS_handlePaymentTypeChange(id, t)
    \/ \E id \in DOMAIN is_invoices, v \in AmountInputs :
          PartialAmountFieldShown(id) /\ IS_handlePartialAmountChange(id, v)
    \/ \E checked \in BOOLEAN : IS_handleSelectAll(checked)
    \/ IS_clearSelections

SpecSelector == Init /\ [][NextSelector]_vars

(* The account payment screen: InvoiceSelector inside AccountPayment. *)
Next ==
    \/ NextSelector
    \/ \E data \in AccountCreditData : AP_loadAccountCreditsResolve(data)
    \/ AP_loadAccountCreditsReject
    \/ \E checked \in BOOLEAN : AP_handleApplyCreditsChange(checked)
    \/ \E v \in CreditInputs : AP_handleCreditAmountChange(v)

Spec == Init /\ [][Next]_vars

(* The single-invoice payment screen. *)
NextInvoice ==
    \/ \E b \in {0, 50, 200} : IP_wireInvoice(b)
    \/ \E data \in GatewayData : IP_loadGatewaysResolve(data)
    \/ IP_loadGatewaysReject
    \/ \E t \in PaymentTypes : IP_handlePaymentTypeChange(t)
    \/ \E v \in AmountInputs : IP_showPartialAmount /\ IP_handlePartialAmountChange(v)
    \/ \E i \in DOMAIN ip_gateways : IP_handleGatewayChange(ip_gateways[i])

SpecInvoice == Init /\ [][NextInvoice]_vars

(* The steps of a payment session: what the selector and the credit box feed
   into AccountPayment, the gateway load, the step buttons, and the results
   the payment form reports to either screen. *)
NextSession ==
    \/ \E data \in OpenInvoiceData : IS_loadInvoicesResolve(data)
    \/ IS_loadInvoicesReject
    \/ \E id \in InvoiceIds, checked \in BOOLEAN : IS_handleInvoiceSelect(id, checked)
    \/ \E checked \in BOOLEAN : IS_handleSelectAll(checked)
    \/ \E data \in AccountCreditData : AP_loadAccountCreditsResolve(data)
    \/ AP_loadAccountCreditsReject
    \/ \E checked \in BOOLEAN : AP_handleApplyCreditsChange(checked)
    \/ \E data \in ActiveGatewayData : AP_loadGatewaysResolve(data)
    \/ AP_loadGatewaysReject
    \/ \E i \in DOMAIN ap_gateways : AP_handleGatewayChange(ap_gateways[i].id)
    \/ AP_handleNext
    \/ AP_handleBack
    \/ \E d \in SuccessDetails : AP_handlePaymentSuccess(d)
    \/ \E msg \in FailureMessages : AP_handlePaymentFailure(msg)
    \/ \E d \in SuccessDetails : IP_handlePaymentSuccess(d)

SpecSession == Init /\ [][NextSession]_vars

(* PaymentForm: everything but the submit button *)
NextFormEvents ==
    \/ \E a \in {0, 100} : PF_setAmount(a)
    \/ \E t \in GatewayTypes : PF_getGatewayConfigResolve(t)
    \/ PF_getGatewayConfigReject
    \/ PF_loadScriptResolve
    \/ PF_loadScriptReject
    \/ \E found \in BOOLEAN : PF_mountCardElement(found)
    \/ \E complete \in BOOLEAN, error \in BOOLEAN : PF_handleStripeCardChange(complete, error)
    \/ \E methods \in {<<>>, <<"pm1">>} : PF_loadPaymentMethodsResolve(methods)
    \/ PF_loadPaymentMethodsReject
    \/ \E j \in DOMAIN pf_paymentMethods : PF_handlePaymentMethodChange(pf_paymentMethods[j])
    \/ PF_handleUseNewCard
    \/ \E i \in 1..MaxInFlight, gotToken \in BOOLEAN : PF_createTokenSettled(i, gotToken)
    \/ \E i \in 1..MaxInFlight, success \in BOOLEAN : PF_processPaymentResolve(i, success)
    \/ \E i \in 1..MaxInFlight : PF_processPaymentReject(i)

(* PaymentForm as the user drives it: the submit button is enabled by
   canSubmit *)
NextForm ==
    \/ NextFormEvents
    \/ PF_canSubmit /\ PF_handleSubmit

SpecForm == Init /\ [][NextForm]_vars

(* PaymentForm with handleSubmit invoked in any state *)
NextFormHandler ==
    \/ NextFormEvents
    \/ PF_handleSubmit

SpecFormHandler == Init /\ [][NextFormHandler]_vars

(* AchPaymentEntry: the account number fields, the authorization box, the
   submit handler and the methods the parent calls *)
NextAch ==
    \/ \E v \in AccountNumberInputs : ACH_handleAccountNumberChange(v)
    \/ \E v \in AccountNumberInputs : ACH_handleConfirmAccountChange(v)
    \/ \E checked \in BOOLEAN : ACH_handleAuthorizationChange(checked)
    \/ \E allValid \in BOOLEAN : ACH_handleSubmit(allValid)
    \/ \E b \in BOOLEAN : ACH_setProcessing(b)
    \/ ACH_setError("Payment failed")
    \/ ACH_reset

SpecAch == Init /\ [][NextAch]_vars

(* what the user may set the plain fields of AchPaymentEntry to *)
AchFieldInputs ==
    { <<"accountType", "savings">>, <<"nameOnAccount", <<"A">> >>,
      <<"nameOnAccount", <<>> >>, <<"bankName", <<"B">> >>,
      <<"savePaymentMethod", TRUE>>, <<"amount", ParseFloatOrZero(Num(25))>> }

(* what the user may have in the routing number field *)
RoutingNumberInputs ==
    { <<"0", "2", "1", "0", "0", "0", "0", "2", "1">>,
      <<"0", "2", "1", "-", "0", "0", "0", " ", "0", "2", "1">>,
      <<"1", "2", "a">> }

(* AchPaymentEntry as the user drives it: every field handler, the submit
   button while it is enabled, and the methods the parent calls *)
NextAchForm ==
    \/ \E f \in AchFieldInputs : ACH_handleFieldChange(f[1], f[2])
    \/ \E v \in RoutingNumberInputs : ACH_handleRoutingChange(v)
    \/ \E v \in AccountNumberInputs : ACH_handleAccountNumberChange(v)
    \/ \E v \in AccountNumberInputs : ACH_handleConfirmAccountChange(v)
    \/ \E checked \in BOOLEAN : ACH_handleAuthorizationChange(checked)
    \/ \E allValid \in BOOLEAN : SubmitButtonEnabled /\ ACH_handleSubmit(allValid)
    \/ \E b \in BOOLEAN : ACH_setProcessing(b)
    \/ ACH_setError("Payment failed")
    \/ ACH_reset

SpecAchForm == Init /\ [][NextAchForm]_vars

(* what a payment input may be set to *)
PaymentFieldInputs == { <<"cardNumber", "4111111111111111">>, <<"cardNumber", "">> }

(* CallCenterPayment, from the account search to the payment.  The account
   search is on the page while showAccountSearch is set, the product search
   and the payment section once an account is selected. *)
NextCallCenter ==
    \/ cc.showAccountSearch /\ CC_handleAccountSearch("Acme")
    \/ CC_performAccountSearch
    \/ \E i \in 1..MaxInFlight, ok \in BOOLEAN : CC_searchAccountsSettled(i, ok)
    \/ \E j \in DOMAIN cc.accountResults : CC_selectAccount(cc.accountResults[j])
    \/ \E i \in 1..MaxInFlight, ok \in BOOLEAN : CC_getPaymentMethodsSettled(i, ok)
    \/ ~CC_noAccountSelected /\ CC_handleProductSearch("wi")
    \/ CC_performProductSearch
    \/ \E i \in 1..MaxInFlight, ok \in BOOLEAN : CC_searchProductsSettled(i, ok)
    \/ \E j \in DOMAIN cc.productResults : CC_addToCart(cc.productResults[j].id)
    \/ \E j \in DOMAIN cc.paymentMethods : CC_handlePaymentMethodChange(cc.paymentMethods[j].Id)
    \/ ~CC_noAccountSelected /\ CC_showNewPayment
    \/ \E f \in PaymentFieldInputs :
          cc.showNewPaymentForm /\ CC_handlePaymentField(f[1], f[2])
    \/ CC_processPayment
    \/ \E i \in 1..MaxInFlight, outcome \in {"success", "failure", "throw"} :
          CC_processPaymentSettled(i, outcome)

SpecCallCenter == Init /\ [][NextCallCenter]_vars

(* what the agent may type into a quantity field: zero, a negative number, a
   quantity, nothing *)
QuantityInputs == {Num(0), Num(-1), Num(2), NotANumber}

(* The cart of CallCenterPayment: the product search that fills
   productResults and the cart handlers; none of them reads the account. *)
NextCart ==
    \/ CC_handleProductSearch("wi")
    \/ CC_performProductSearch
    \/ \E i \in 1..MaxInFlight, ok \in BOOLEAN : CC_searchProductsSettled(i, ok)
    \/ \E j \in DOMAIN cc.productResults : CC_addToCart(cc.productResults[j].id)
    \/ \E j \in DOMAIN cc.cartItems, v \in QuantityInputs :
          CC_updateQuantity(cc.cartItems[j].productId, v)
    \/ \E j \in DOMAIN cc.cartItems : CC_removeFromCart(cc.cartItems[j].productId)
    \/ \E confirmed \in BOOLEAN : CC_hasCartItems /\ CC_clearCart(confirmed)

SpecCart == Init /\ [][NextCart]_vars

(* The account section of CallCenterPayment: the account search with a term
   long enough to search and one too short, selecting and clearing the
   account, the quick account creation, and the payment method choice. *)
NextAccount ==
    \/ \E term \in {"Acme", "Ac"} : cc.showAccountSearch /\ CC_handleAccountSearch(term)
    \/ CC_performAccountSearch
    \/ \E i \in 1..MaxInFlight, ok \in BOOLEAN : CC_searchAccountsSettled(i, ok)
    \/ \E j \in DOMAIN cc.accountResults : CC_selectAccount(cc.accountResults[j])
    \/ \E i \in 1..MaxInFlight, ok \in BOOLEAN : CC_getPaymentMethodsSettled(i, ok)
    \/ ~CC_noAccountSelected /\ CC_clearAccount
    \/ \E name \in {"", "New Co"} : cc.showAccountSearch /\ CC_handleNewAccountField(name)
    \/ cc.showAccountSearch /\ CC_createAccount
    \/ \E i \in 1..MaxInFlight, ok \in BOOLEAN : CC_createAccountSettled(i, ok)
    \/ \E j \in DOMAIN cc.paymentMethods : CC_handlePaymentMethodChange(cc.paymentMethods[j].Id)
    \/ ~CC_noAccountSelected /\ CC_showNewPayment

SpecAccount == Init /\ [][NextAccount]_vars

(* what the agent may type into the new-payment form *)
CheckoutFieldInputs ==
    { <<"cardNumber", "4111111111111111">>, <<"expirationMonth", "12">>,
      <<"expirationYear", "2030">>, <<"cvv", "123">>,
      <<"routingNumber", "021000021">>, <<"accountNumber", "000123456789">> }

(* A call-center payment from the search to the submission: one account
   search, one product search, the payment section with both payment types
   and every required field, and processPayment invoked in any state in
   which no payment is in flight. *)
NextCheckout ==
    \/ cc.showAccountSearch /\ cc.accountSearchTerm = "" /\ CC_handleAccountSearch("Acme")
    \/ CC_performAccountSearch
    \/ \E i \in 1..MaxInFlight : CC_searchAccountsSettled(i, TRUE)
    \/ \E j \in DOMAIN cc.accountResults : CC_selectAccount(cc.accountResults[j])
    \/ \E i \in 1..MaxInFlight, ok \in BOOLEAN : CC_getPaymentMethodsSettled(i, ok)
    \/ ~CC_noAccountSelected /\ cc.productSearchTerm = "" /\ CC_handleProductSearch("wi")
    \/ CC_performProductSearch
    \/ \E i \in 1..MaxInFlight : CC_searchProductsSettled(i, TRUE)
    \/ \E j \in DOMAIN cc.productResults : CC_addToCart(cc.productResults[j].id)
    \/ \E j \in DOMAIN cc.paymentMethods : CC_handlePaymentMethodChange(cc.paymentMethods[j].Id)
    \/ ~CC_noAccountSelected /\ CC_showNewPayment
    \/ \E t \in {"Card", "ACH"} : cc.showNewPaymentForm /\ CC_handlePaymentTypeChange(t)
    \/ \E f \in CheckoutFieldInputs :
          cc.showNewPaymentForm /\ CC_handlePaymentField(f[1], f[2])
    \/ cc_pending.processCallCenterPayment = <<>> /\ CC_processPayment
    \/ \E i \in 1..MaxInFlight, outcome \in {"success", "failure"} :
          CC_processPaymentSettled(i, outcome)

SpecCheckout == Init /\ [][NextCheckout]_vars

(* the ids generateInvoicesFromOrder may return *)
InvoiceIdLists == { <<>>, <<"inv1", "inv2">> }

(* GenerateInvoices: the load, the terms and auto-pay inputs, the previews
   and the generation *)
NextGenerate ==
    \/ \E ok \in BOOLEAN, gateways \in ActiveGatewayData : GI_loadDataSettled(ok, gateways)
    \/ \E i \in 1..MaxInFlight, ok \in BOOLEAN : GI_previewSettled(i, ok)
    \/ \E checked \in BOOLEAN : GI_handleAutoPayChange(checked)
    \/ \E v \in {Num(15), Num(0), NotANumber} : GI_handleTermsChange(v)
    \/ GI_handleGenerate
    \/ \E i \in 1..MaxInFlight, ok \in BOOLEAN, invoiceIds \in InvoiceIdLists :
          GI_generateSettled(i, ok, invoiceIds)

SpecGenerate == Init /\ [][NextGenerate]_vars

----------------------------------------------------------------------------
(* The busy flags.  The four components that raise one share no state and
   sit on different pages: each is driven through the handlers that raise its
   flag and the calls those handlers wait for, and a handler of one component
   is invoked once the component has loaded, the other components being
   loaded and not used. *)

(* loadInvoices has returned *)
IdleSelector == is_call = "done"

(* loadData has returned *)
LoadedGenerate == gi.loadCall # "pending" /\ gi.previews = <<>>

(* and handleGenerate was never invoked *)
IdleGenerate ==
    /\ LoadedGenerate
    /\ gi.generates = <<>>
    /\ gi.toast = NoToast

(* loadGatewayConfig has returned and the mount timer has fired *)
LoadedForm == pf_configCall = "done" /\ pf_cardElement # "created"

(* and handleSubmit was never invoked: the last toast, if any, is the load's *)
IdleForm ==
    /\ LoadedForm
    /\ pf_submits = <<>>
    /\ pf_out = IF pf_cardElement = "none" THEN Out("error", "none") ELSE Nothing

(* CallCenterPayment as constructed *)
IdleCallCenter ==
    /\ cc = CallCenterInitial
    /\ cc_pending = NothingPending
    /\ cc_out = NoToast

(* InvoiceSelector: loadInvoices, answered with one list of invoices or
   rejected *)
BusySelector ==
    \/ \E data \in {d \in OpenInvoiceData : d[1] = 200} : IS_loadInvoicesResolve(data)
    \/ IS_loadInvoicesReject

(* GenerateInvoices: loadData with its preview, handleGenerate *)
BusyGenerate ==
    \/ \E ok \in BOOLEAN : GI_loadDataSettled(ok, <<>>)
    \/ \E i \in 1..MaxInFlight, ok \in BOOLEAN : GI_previewSettled(i, ok)
    \/ LoadedGenerate /\ IdleSelector /\ IdleForm /\ IdleCallCenter /\ GI_handleGenerate
    \/ \E i \in 1..MaxInFlight, ok \in BOOLEAN, invoiceIds \in InvoiceIdLists :
          GI_generateSettled(i, ok, invoiceIds)

(* PaymentForm on Stripe: loadGatewayConfig, handleSubmit in any state of the
   loaded form *)
BusyForm ==
    \/ PF_getGatewayConfigResolve("Stripe")
    \/ PF_getGatewayConfigReject
    \/ PF_loadScriptResolve
    \/ PF_loadScriptReject
    \/ \E found \in BOOLEAN : PF_mountCardElement(found)
    \/ LoadedForm /\ IdleSelector /\ IdleGenerate /\ IdleCallCenter /\ PF_handleSubmit
    \/ \E i \in 1..MaxInFlight, gotToken \in BOOLEAN : PF_createTokenSettled(i, gotToken)
    \/ \E i \in 1..MaxInFlight, success \in BOOLEAN : PF_processPaymentResolve(i, success)
    \/ \E i \in 1..MaxInFlight : PF_processPaymentReject(i)

(* what the agent does in CallCenterPayment: createAccount in any state,
   processPayment in any state in which no payment is in flight, with the one
   search, the saved payment method and the one product that make a payment
   valid *)
CallCenterHandlers ==
    \/ cc.newAccountName = "" /\ CC_handleNewAccountField("Acme Co")
    \/ CC_createAccount
    \/ cc.showAccountSearch /\ cc.accountSearchTerm = "" /\ CC_handleAccountSearch("Acme")
    \/ cc.showAccountSearch /\ \E j \in DOMAIN cc.accountResults :
                                   CC_selectAccount(cc.accountResults[j])
    \/ ~CC_noAccountSelected /\ cc.productSearchTerm = "" /\ CC_handleProductSearch("wi")
    \/ cc.cartItems = <<>> /\ \E j \in DOMAIN cc.productResults :
                                 CC_addToCart(cc.productResults[j].id)
    \/ cc_pending.processCallCenterPayment = <<>> /\ CC_processPayment

(* CallCenterPayment: the handlers, the search timers and the calls *)
BusyCallCenter ==
    \/ IdleSelector /\ IdleGenerate /\ IdleForm /\ CallCenterHandlers
    \/ CC_performAccountSearch
    \/ CC_performProductSearch
    \/ \E i \in 1..MaxInFlight : CC_searchAccountsSettled(i, TRUE)
    \/ \E i \in 1..MaxInFlight : CC_getPaymentMethodsSettled(i, TRUE)
    \/ \E i \in 1..MaxInFlight : CC_searchProductsSettled(i, TRUE)
    \/ \E i \in 1..MaxInFlight, ok \in BOOLEAN : CC_createAccountSettled(i, ok)
    \/ \E i \in 1..MaxInFlight, outcome \in {"success", "failure", "throw"} :
          CC_processPaymentSettled(i, outcome)

NextBusy ==
    \/ BusySelector
    \/ BusyGenerate
    \/ BusyForm
    \/ BusyCallCenter

(* every backend call and every script load returns: the call a component
   has waited for longest is answered *)
CallsReturn ==
    /\ WF_vars(BusySelector)
    /\ WF_vars(\E ok \in BOOLEAN : GI_loadDataSettled(ok, <<>>))
    /\ WF_vars(\E ok \in BOOLEAN : GI_previewSettled(1, ok))
    /\ WF_vars(\E ok \in BOOLEAN, invoiceIds \in InvoiceIdLists :
                  GI_generateSettled(1, ok, invoiceIds))
    /\ WF_vars(PF_getGatewayConfigResolve("Stripe") \/ PF_getGatewayConfigReject)
    /\ WF_vars(PF_loadScriptResolve \/ PF_loadScriptReject)
    /\ WF_vars(\/ \E gotToken \in BOOLEAN : PF_createTokenSettled(1, gotToken)
               \/ \E success \in BOOLEAN : PF_processPaymentResolve(1, success)
               \/ PF_processPaymentReject(1))
    /\ WF_vars(\E ok \in BOOLEAN : CC_createAccountSettled(1, ok))
    /\ WF_vars(\E outcome \in {"success", "failure", "throw"} :
                  CC_processPaymentSettled(1, outcome))

SpecBusy == Init /\ [][NextBusy]_vars /\ CallsReturn

----------------------------------------------------------------------------
(* Properties *)

Range(f) == {f[j] : j \in DOMAIN f}

(* the invoice ids of a selection, in order *)
SelIds(m) == [j \in 1..Len(m) |-> m[j].invoiceId]

(* the sum of the first n amounts of s *)
RECURSIVE PrefixAmount(_, _)
PrefixAmount(s, n) == IF n = 0 THEN 0 ELSE PrefixAmount(s, n - 1) + s[n].amount

(* C1: every selection entry has 0 <= amount <= balanceDue of the invoice it
   references. *)
C1_SelectionAmountInRange ==
    \A j \in 1..Len(is_selectedInvoices) :
        LET e == is_selectedInvoices[j]
        IN \E i \in DOMAIN is_invoices :
              /\ is_invoices[i].id = e.invoiceId
              /\ 0 <= e.amount
              /\ e.amount <= is_invoices[i].balanceDue

(* C1 witness: two partial entries, one clamped to 0 and one strictly inside
   its invoice's balance. *)
C1_Witness ==
    /\ \E j \in 1..Len(is_selectedInvoices) :
          /\ ~is_selectedInvoices[j].isFullPayment
          /\ is_selectedInvoices[j].amount = 0
          /\ is_invoices[is_selectedInvoices[j].invoiceId].balanceDue > 0
    /\ \E j \in 1..Len(is_selectedInvoices) :
          /\ ~is_selectedInvoices[j].isFullPayment
          /\ is_selectedInvoices[j].amount = 30
          /\ is_invoices[is_selectedInvoices[j].invoiceId].balanceDue > 30

(* C2: every allocation AccountPayment hands to the payment form has
   amount > 0. *)
C2_AllocationsPositive ==
    \A j \in 1..Len(AP_allocationsForPayment) : AP_allocationsForPayment[j].amount > 0

(* C3: 0 <= creditAmountToApply <= min(totalAvailableCredit, totalAmount) in
   every reachable state. *)
C3_CreditClamped ==
    /\ 0 <= ap_creditAmountToApply
    /\ ap_creditAmountToApply <= MathMin(AP_totalAvailableCredit, ap_totalAmount)

(* C4: InvoicePayment.handlePartialAmountChange stores
   min(max(0, requested), balanceDue), for any input. *)
C4_PartialAmountClamped ==
    [][\A v \in AmountInputs :
          IP_handlePartialAmountChange(v) =>
              ip_partialAmount' = MathMin(MathMax(0, ParseFloatOrZero(v)), IP_balanceDue)]_vars

(* C5: the selectionchange event carries the current selection entries, the
   sum of their amounts and their number. *)
C5_EventMatchesSelection ==
    events # <<>> =>
        /\ events[1].allocations = is_selectedInvoices
        /\ events[1].totalAmount =
              PrefixAmount(is_selectedInvoices, Len(is_selectedInvoices))
        /\ events[1].invoiceCount = Cardinality(Range(SelIds(is_selectedInvoices)))
        /\ (is_selectedInvoices = <<>> =>
              events[1] = [allocations |-> <<>>, totalAmount |-> 0, invoiceCount |-> 0])

(* C5 witness: invoice 1 (balance 200) in full and invoice 2 (balance 50)
   partial 30 give a total of 230. *)
C5_Witness ==
    events = <<[allocations |->
                   <<[invoiceId |-> 1, amount |-> 200, isFullPayment |-> TRUE],
                     [invoiceId |-> 2, amount |-> 30, isFullPayment |-> FALSE]>>,
                totalAmount |-> 230, invoiceCount |-> 2]>>

(* C6: the selection is in insertion order: every step keeps the invoices that
   stay selected in their places, in front, and puts newly selected ones
   after them; the event lists the allocations in that order. *)
C6_InsertionOrder ==
    [][LET old == SelIds(is_selectedInvoices)
           new == SelIds(is_selectedInvoices')
           kept == SelectSeq(old, LAMBDA i : \E k \in 1..Len(new) : new[k] = i)
           added == SelectSeq(new, LAMBDA i : \A k \in 1..Len(old) : old[k] # i)
       IN /\ new = kept \o added
          /\ (events' # <<>> => SelIds(events'[1].allocations) = new)]_vars

(* C6 witness: invoice 2 was selected before invoice 1 and then switched to
   partial; it is still first. *)
C6_Witness ==
    /\ SelIds(is_selectedInvoices) = <<2, 1>>
    /\ ~is_selectedInvoices[1].isFullPayment
    /\ is_selectedInvoices[2].isFullPayment

(* the allocations after greedy distribution of credit, in closed form: the
   credit left for allocation j is what the earlier amounts have not used *)
GreedyReduced(allocs, credit) ==
    [j \in 1..Len(allocs) |->
        LET left == MathMax(0, credit - PrefixAmount(allocs, j - 1))
        IN [allocs[j] EXCEPT !.amount = allocs[j].amount - MathMin(left, allocs[j].amount)]]

(* the distribution branch: [(1,100),(2,50)] with credit 120 *)
C7_ExampleState ==
    /\ ap_applyCredits
    /\ ap_creditAmountToApply = 120
    /\ ap_invoiceAllocations =
          <<[invoiceId |-> 1, amount |-> 100, isFullPayment |-> TRUE],
            [invoiceId |-> 2, amount |-> 50, isFullPayment |-> TRUE]>>

C7_Greedy ==
    (ap_applyCredits /\ ap_creditAmountToApply > 0) =>
        AP_allocationsForPayment =
            SelectSeq(GreedyReduced(ap_invoiceAllocations, ap_creditAmountToApply),
                      LAMBDA a : a.amount > 0)

(* C7 as stated: when credit is distributed (credits applied, amount > 0) the
   result is the greedy, in-order reduction of the allocations, without those
   reduced to 0; [(1,100),(2,50)] with credit 120 gives [(2,20)]. *)
C7_Original ==
    /\ C7_Greedy
    /\ C7_ExampleState =>
          AP_allocationsForPayment =
              <<[invoiceId |-> 2, amount |-> 20, isFullPayment |-> TRUE]>>

(* C7 amended: when credit is distributed (credits applied, amount > 0) the
   result is the greedy, in-order reduction of the allocations, without those
   reduced to 0; [(1,100),(2,50)] with credit 120 gives [(2,30)]: invoice 1
   uses 100 of the credit, invoice 2 the other 20 and keeps 30 to pay. *)
C7_GreedyInListOrder ==
    /\ C7_Greedy
    /\ C7_ExampleState =>
          AP_allocationsForPayment =
              <<[invoiceId |-> 2, amount |-> 30, isFullPayment |-> TRUE]>>

(* C7 witness: the example's state, with invoice 2 left to pay. *)
C7_Witness ==
    /\ C7_ExampleState
    /\ Len(AP_allocationsForPayment) = 1
    /\ AP_allocationsForPayment[1].invoiceId = 2

(* C8: with creditAmountToApply = 0, or credits not applied, the allocations
   for payment are the invoice allocations, unchanged. *)
C8_ZeroCreditIsIdentity ==
    (ap_creditAmountToApply = 0 \/ ~ap_applyCredits) =>
        AP_allocationsForPayment = ap_invoiceAllocations

(* C8 witness: credits ticked with amount 0 over two allocations, one of them
   of amount 0. *)
C8_Witness ==
    /\ ap_applyCredits
    /\ ap_creditAmountToApply = 0
    /\ Len(ap_invoiceAllocations) = 2
    /\ \E j \in 1..2 : ap_invoiceAllocations[j].amount = 0
    /\ \E j \in 1..2 : ap_invoiceAllocations[j].amount > 0

(* C9: when credit is applied and creditAmountToApply >= the sum of the
   allocation amounts, nothing is left to pay. *)
C9_FullCreditLeavesNothing ==
    (/\ ap_applyCredits
     /\ ap_creditAmountToApply > 0
     /\ ap_creditAmountToApply >= SumAmounts(ap_invoiceAllocations)) =>
        AP_allocationsForPayment = <<>>

(* C9 witness: credit 250 over [(1,200),(2,30)]. *)
C9_Witness ==
    /\ ap_applyCredits
    /\ ap_creditAmountToApply = 250
    /\ ap_invoiceAllocations =
          <<[invoiceId |-> 1, amount |-> 200, isFullPayment |-> TRUE],
            [invoiceId |-> 2, amount |-> 30, isFullPayment |-> FALSE]>>
    /\ AP_allocationsForPayment = <<>>

(* C10: an allocation that survives credit distribution keeps its invoiceId
   and isFullPayment flag, and its amount does not grow. *)
C10_SurvivorsKeepIdAndFlag ==
    \A j \in 1..Len(AP_allocationsForPayment) :
        \E i \in 1..Len(ap_invoiceAllocations) :
            /\ AP_allocationsForPayment[j].invoiceId = ap_invoiceAllocations[i].invoiceId
            /\ AP_allocationsForPayment[j].isFullPayment =
                  ap_invoiceAllocations[i].isFullPayment
            /\ AP_allocationsForPayment[j].amount <= ap_invoiceAllocations[i].amount

(* C10 witness: a full-payment allocation survives with a smaller amount, and
   a partial one survives too. *)
C10_Witness ==
    /\ ap_applyCredits
    /\ ap_creditAmountToApply > 0
    /\ \E j \in 1..Len(AP_allocationsForPayment) :
          \E i \in 1..Len(ap_invoiceAllocations) :
             /\ AP_allocationsForPayment[j].invoiceId = ap_invoiceAllocations[i].invoiceId
             /\ AP_allocationsForPayment[j].isFullPayment
             /\ AP_allocationsForPayment[j].amount < ap_invoiceAllocations[i].amount
    /\ \E j \in 1..Len(AP_allocationsForPayment) :
          ~AP_allocationsForPayment[j].isFullPayment

(* C11: in InvoiceSelector, a selected invoice whose row is in 'full' mode has
   a selection entry whose amount is exactly its balanceDue, after any
   sequence of select, mode-change, partial-amount-change, select-all and
   clear events. *)
C11_FullModeAmountIsBalance ==
    \A j \in 1..Len(is_selectedInvoices) :
        LET e == is_selectedInvoices[j]
        IN \A i \in DOMAIN is_invoices :
              (is_invoices[i].id = e.invoiceId /\ is_invoices[i].paymentType = "full")
                  => e.amount = is_invoices[i].balanceDue

(* C11 witness: a row that was given a partial amount of 30 and then switched
   back to 'full': its entry holds the balance again, beside a partial one. *)
C11_Witness ==
    /\ \E j \in 1..Len(is_selectedInvoices) :
          LET e == is_selectedInvoices[j]
          IN /\ is_invoices[e.invoiceId].paymentType = "full"
             /\ is_invoices[e.invoiceId].paymentAmount = 30
             /\ is_invoices[e.invoiceId].balanceDue > 30
             /\ e.amount = is_invoices[e.invoiceId].balanceDue
    /\ \E j \in 1..Len(is_selectedInvoices) : ~is_selectedInvoices[j].isFullPayment

(* C12: AccountPayment.handleNext in the select step with no invoice selected
   shows the error and stays in 'select'; the step goes from 'select' to
   'payment' only when at least one invoice is selected. *)
C12_NextNeedsAnInvoice ==
    [][/\ (AP_handleNext /\ ap_currentStep = "select" /\ ap_invoiceCount = 0)
            => /\ ap_currentStep' = "select"
               /\ ap_toast' = "Please select at least one invoice"
       /\ (ap_currentStep = "select" /\ ap_currentStep' = "payment")
            => ap_invoiceCount > 0]_vars

(* C12 witness: handleNext was refused (the step is still 'select', nothing is
   selected, the error is on display) although a gateway was ready. *)
C12_Witness ==
    /\ ap_currentStep = "select"
    /\ ap_invoiceCount = 0
    /\ ap_selectedGatewayId # "undefined"
    /\ ap_toast = "Please select at least one invoice"

(* C13: AccountPayment is never in the 'payment' step while no gateway is
   selected. *)
C13_PaymentStepHasGateway ==
    ap_currentStep = "payment" => ap_selectedGatewayId # "undefined"

(* C16: AccountPayment.handlePaymentFailure (the step that puts a payment
   failure message on display) leaves currentStep, invoiceAllocations,
   totalAmount, invoiceCount, applyCredits, creditAmountToApply and
   selectedGatewayId as they were. *)
C16_FailureKeepsSelection ==
    [][(ap_toast' # ap_toast /\ ap_toast' \in FailureMessages)
          => UNCHANGED <<ap_currentStep, ap_invoiceAllocations, ap_totalAmount,
                         ap_invoiceCount, ap_applyCredits, ap_creditAmountToApply,
                         ap_selectedGatewayId>>]_vars

(* C16 witness: a failure was reported in the payment step; the user is still
   there with the selection, the credit and the gateway in place. *)
C16_Witness ==
    /\ ap_toast \in FailureMessages
    /\ ap_currentStep = "payment"
    /\ Len(ap_invoiceAllocations) = 2
    /\ ap_applyCredits
    /\ ap_creditAmountToApply > 0
    /\ ap_selectedGatewayId = "gw2"

StepRank(step) == CASE step = "select" -> 1 [] step = "payment" -> 2 [] OTHER -> 3

(* C17: the step only moves forward along select, payment, confirmation, with
   payment back to select as the one step backwards; a screen in
   'confirmation' holds a successful paymentResult with the transaction id it
   was given; and 'confirmation' is never left. *)
C17_StepsMoveForward ==
    [][/\ \/ StepRank(ap_currentStep') >= StepRank(ap_currentStep)
          \/ (ap_currentStep = "payment" /\ ap_currentStep' = "select")
       /\ ap_currentStep = "confirmation" => ap_currentStep' = "confirmation"
       /\ ip_currentStep = "confirmation" => ip_currentStep' = "confirmation"
       /\ \A screen \in {<<ap_currentStep, ap_currentStep', ap_paymentResult'>>,
                         <<ip_currentStep, ip_currentStep', ip_paymentResult'>>} :
             (screen[1] # "confirmation" /\ screen[2] = "confirmation")
                => /\ screen[3].success
                   /\ \E d \in SuccessDetails :
                         screen[3].transactionId = d.transactionId]_vars

(* C17 witness: AccountPayment reached the confirmation with a recorded
   result and a selection; InvoicePayment reached it too. *)
C17_Witness ==
    /\ ap_currentStep = "confirmation"
    /\ ap_paymentResult.success
    /\ ap_paymentResult.transactionId = "txn2"
    /\ ap_invoiceCount > 0
    /\ ip_currentStep = "confirmation"
    /\ ip_paymentResult.transactionId = "txn1"

(* C14: in PaymentForm at most one processPayment call is in flight: while a
   handleSubmit invocation has not finished, isLoading is true and canSubmit
   is false, whatever loadGatewayConfig and loadPaymentMethods do meanwhile. *)
C14_OneSubmissionAtATime ==
    /\ Len(pf_submits) <= 1
    /\ pf_submits # <<>> => (pf_isLoading /\ ~PF_canSubmit)

(* C14 witness: a processPayment call is pending for a saved method while the
   payment methods are loaded and the card is valid as well. *)
C14_Witness ==
    /\ Len(pf_submits) = 1
    /\ pf_submits[1].pc = "process"
    /\ pf_submits[1].paymentMethodId = "pm1"
    /\ pf_cardValid
    /\ pf_amount > 0
    /\ pf_configCall = "done"

(* C19: every step that ends a PaymentForm.handleSubmit invocation without a
   'paymentsuccess' event shows an error notification. *)
C19_NoSilentEnd ==
    [][\/ ~PF_handleSubmit
       \/ Len(pf_submits') > Len(pf_submits)
       \/ pf_out'.toast = "error"]_vars
    /\ [][(Len(pf_submits') < Len(pf_submits) /\ pf_out'.event # "paymentsuccess")
             => pf_out'.toast = "error"]_vars

(* C18: AchPaymentEntry.handleSubmit dispatches 'submit' only when
   accountNumber equals confirmAccountNumber and the authorization box is
   checked; on a mismatch or missing authorization it sets the error message,
   dispatches nothing and does not set isProcessing. *)
C18_SubmitNeedsMatchAndAuthorization ==
    [][/\ ach_out'.event = "submit"
            => (ach.accountNumber = ach.confirmAccountNumber /\ ach.authorized)
       /\ \A allValid \in BOOLEAN :
            (ACH_handleSubmit(allValid)
               /\ (ach.accountNumber # ach.confirmAccountNumber \/ ~ach.authorized))
              => /\ ach'.error \in {"Account numbers do not match",
                                    "Please authorize the ACH debit"}
                 /\ ach_out'.event = "none"
                 /\ ach'.isProcessing = ach.isProcessing]_vars

(* C15: in CallCenterPayment at most one processCallCenterPayment call is in
   flight: while one is pending (isLoading is true) cannotProcessPayment is
   true or processPayment does nothing, so no second call starts. *)
C15_OnePaymentInFlight ==
    /\ Len(cc_pending.processCallCenterPayment) <= 1
    /\ cc_pending.processCallCenterPayment # <<>> => ~CC_canProcessPayment

(* what the agent chose and typed in CallCenterPayment *)
FormFields(c) ==
    <<c.selectedAccount, c.cartItems, c.selectedPaymentMethodId, c.showNewPaymentForm,
      c.paymentType, c.cardNumber, c.expirationMonth, c.expirationYear, c.cvv,
      c.billingZip, c.routingNumber, c.accountNumber>>

(* C20: when a processCallCenterPayment call settles otherwise than with
   success (the backend reports failure or the call throws), an error
   notification is shown and the selected account, the cart, the payment
   method selection and the entered payment fields stay as they were: a
   settling call clears the form only when it reports success. *)
C20_FailureKeepsForm ==
    [][(/\ Len(cc_pending'.processCallCenterPayment)
             < Len(cc_pending.processCallCenterPayment)
        /\ cc_out'.variant # "success")
          => /\ cc_out'.variant = "error"
             /\ FormFields(cc') = FormFields(cc)]_vars

(* C20 witness: a payment with a saved method was just refused by the backend;
   account, cart, method and an earlier typed card number are all in place. *)
C20_Witness ==
    /\ cc_out = Toast("error", "Payment Failed", "")
    /\ cc.selectedAccount = "acc1"
    /\ Len(cc.cartItems) = 1
    /\ cc.selectedPaymentMethodId = "pm1"
    /\ cc.cardNumber = "4111111111111111"
    /\ ~cc.isLoading
    /\ cc_pending.processCallCenterPayment = <<>>


(* the selection m without the entry of invoice id, the others in place *)
WithoutEntry(m, id) == SelectSeq(m, LAMBDA e : e.invoiceId # id)

(* C21: selecting an unselected invoice and then deselecting it gives back
   the selection there was: the select step only adds the invoice's entry
   (without it the selection is the prior one, same entries, same order), and
   the deselect step removes exactly that entry, it is not kept with a zero
   amount, and emits the total and the count of what remains. *)
C21_SelectThenDeselectRestores ==
    [][\A i \in InvoiceIds :
         /\ (IS_handleInvoiceSelect(i, TRUE) /\ ~MapHas(is_selectedInvoices, i))
              => /\ MapHas(is_selectedInvoices', i)
                 /\ WithoutEntry(is_selectedInvoices', i) = is_selectedInvoices
         /\ (IS_handleInvoiceSelect(i, FALSE) /\ MapHas(is_selectedInvoices, i))
              => /\ is_selectedInvoices' = WithoutEntry(is_selectedInvoices, i)
                 /\ events' = <<[allocations |-> is_selectedInvoices',
                                 totalAmount |-> SumAmounts(is_selectedInvoices'),
                                 invoiceCount |-> Len(is_selectedInvoices')]>>]_vars

(* C21 witness: invoice 1 was selected, switched to partial and deselected
   again; the selection is invoice 2 alone and the last event says so. *)
C21_Witness ==
    /\ Len(is_invoices) = NumInvoices
    /\ ~is_invoices[1].selected
    /\ is_invoices[1].paymentType = "partial"
    /\ SelIds(is_selectedInvoices) = <<2>>
    /\ events = <<notifySelectionChange(is_selectedInvoices)>>

(* C25: every selection entry agrees with its row: isFullPayment is true
   exactly when the row's paymentType is 'full', and in partial mode the
   entry's amount is the row's paymentAmount. *)
C25_EntryAgreesWithRow ==
    \A j \in 1..Len(is_selectedInvoices) :
        LET entry == is_selectedInvoices[j]
            row == is_invoices[entry.invoiceId]
        IN /\ entry.isFullPayment <=> (row.paymentType = "full")
           /\ row.paymentType = "partial" => entry.amount = row.paymentAmount

(* C26: clearSelections empties the selection, puts every row back to
   unselected, 'full' and paymentAmount = balanceDue, and emits
   selectionchange with no allocations, total 0 and count 0. *)
C26_ClearSelectionsResets ==
    [][IS_clearSelections
         => /\ is_selectedInvoices' = <<>>
            /\ DOMAIN is_invoices' = DOMAIN is_invoices
            /\ \A i \in DOMAIN is_invoices' :
                  /\ ~is_invoices'[i].selected
                  /\ is_invoices'[i].paymentType = "full"
                  /\ is_invoices'[i].paymentAmount = is_invoices'[i].balanceDue
                  /\ is_invoices'[i].balanceDue = is_invoices[i].balanceDue
            /\ events' = <<[allocations |-> <<>>, totalAmount |-> 0,
                            invoiceCount |-> 0]>>]_vars

(* C26 witness: the rows are loaded, the parent holds the empty selection of
   the last event, and every row is in its initial mode. *)
C26_Witness ==
    /\ Len(is_invoices) = NumInvoices
    /\ is_selectedInvoices = <<>>
    /\ events = <<[allocations |-> <<>>, totalAmount |-> 0, invoiceCount |-> 0]>>
    /\ ap_invoiceCount = 0
    /\ \A i \in DOMAIN is_invoices :
          ~is_invoices[i].selected /\ is_invoices[i].paymentType = "full"


(* C23: in AccountPayment the amounts of allocationsForPayment add up to
   paymentAmount = max(0, totalAmount - creditAmountToApply), whatever the
   order of selection changes, apply-credit toggles and credit-amount edits. *)
C23_AllocationsSumToPayment ==
    SumAmounts(AP_allocationsForPayment) = AP_paymentAmount


(* C30: every processPayment call of PaymentForm carries exactly one payment
   instrument: a card token and no payment method id, or a payment method id
   and no card token. *)
C30_ExactlyOneInstrument ==
    \A i \in DOMAIN pf_submits :
        pf_submits[i].pc = "process"
          => \/ /\ pf_submits[i].cardToken \notin {"null", "undefined"}
                /\ pf_submits[i].paymentMethodId = "null"
             \/ /\ pf_submits[i].paymentMethodId \notin {"null", "undefined"}
                /\ pf_submits[i].cardToken = "null"


(* C28: in the cart of CallCenterPayment each productId appears at most once,
   every item has an integer quantity >= 1 and totalPrice = quantity x
   unitPrice, and cartTotal is the sum of the items' quantity x unitPrice. *)
C28_CartWellFormed ==
    /\ \A j, k \in DOMAIN cc.cartItems :
          cc.cartItems[j].productId = cc.cartItems[k].productId => j = k
    /\ \A j \in DOMAIN cc.cartItems :
          /\ cc.cartItems[j].quantity \in Nat
          /\ cc.cartItems[j].quantity >= 1
          /\ cc.cartItems[j].totalPrice
                = cc.cartItems[j].quantity * cc.cartItems[j].unitPrice
    /\ CC_cartTotal(cc.cartItems) \in Nat
    /\ CC_cartTotal(cc.cartItems)
          = SumAmounts([j \in DOMAIN cc.cartItems |->
                           [amount |-> cc.cartItems[j].quantity * cc.cartItems[j].unitPrice]])


(* C24: in CallCenterPayment a non-empty selectedPaymentMethodId is the id of
   a payment method of the currently selected account, and paymentMethods
   holds only methods of that account. *)
C24_MethodsBelongToAccount ==
    /\ cc.selectedPaymentMethodId # ""
         => /\ cc.selectedAccount # "null"
            /\ \E j \in DOMAIN MethodsOf(cc.selectedAccount) :
                  MethodsOf(cc.selectedAccount)[j].Id = cc.selectedPaymentMethodId
    /\ cc.paymentMethods # <<>>
         => /\ cc.selectedAccount # "null"
            /\ Range(cc.paymentMethods) \subseteq Range(MethodsOf(cc.selectedAccount))

(* C27: once no debounce timer is armed and no searchAccounts call is in
   flight, accountResults is empty whenever the current accountSearchTerm has
   fewer than 3 characters. *)
C27_NoStaleAccountResults ==
    (~cc_pending.accountSearchTimeout /\ cc_pending.searchAccounts = <<>>
       /\ Len(cc.accountSearchTerm) < 3)
      => cc.accountResults = <<>>


(* the required fields of the chosen payment type are all filled *)
RequiredFieldsFilled ==
    IF cc.paymentType = "Card"
    THEN cc.cardNumber # "" /\ cc.expirationMonth # "" /\ cc.expirationYear # ""
            /\ cc.cvv # ""
    ELSE cc.routingNumber # "" /\ cc.accountNumber # ""

(* an account is selected, the cart is not empty, and a saved method is
   selected or the new-payment form is open and complete *)
MayPay ==
    /\ cc.selectedAccount # "null"
    /\ Len(cc.cartItems) > 0
    /\ \/ cc.selectedPaymentMethodId # ""
       \/ cc.showNewPaymentForm /\ RequiredFieldsFilled

(* C22: CallCenterPayment calls processCallCenterPayment only when an account
   is selected, the cart is non-empty and either a saved method is selected
   or the new-payment form is open with every required field of the chosen
   type filled; otherwise processPayment shows a validation error and makes
   no backend call. *)
C22_PaymentNeedsValidInput ==
    [][/\ Len(cc_pending'.processCallCenterPayment)
             > Len(cc_pending.processCallCenterPayment) => MayPay
       /\ (CC_processPayment /\ ~MayPay)
            => /\ cc_out'.variant = "error"
               /\ cc_out'.title = "Validation Error"
               /\ cc_pending' = cc_pending]_vars

(* C22 witness: a bank-account payment entered in the new-payment form is in
   flight, routing and account number filled. *)
C22_Witness ==
    /\ Len(cc_pending.processCallCenterPayment) = 1
    /\ cc_pending.processCallCenterPayment[1].paymentType = "ACH"
    /\ cc_pending.processCallCenterPayment[1].paymentToken = "tok_simulated"
    /\ cc.showNewPaymentForm
    /\ cc.routingNumber # "" /\ cc.accountNumber # ""
    /\ cc.isLoading

(* C29: a request submitted while the new-payment form is closed (a saved
   method is used) carries no new-instrument data: paymentToken,
   cardLastFour, cardType and accountLastFour are all null. *)
C29_SavedMethodCarriesNoNewInstrument ==
    [][(/\ Len(cc_pending'.processCallCenterPayment)
             > Len(cc_pending.processCallCenterPayment)
        /\ ~cc.showNewPaymentForm)
          => LET request == cc_pending'.processCallCenterPayment[
                                Len(cc_pending'.processCallCenterPayment)]
             IN /\ request.paymentToken = "null"
                /\ request.cardLastFour = "null"
                /\ request.cardType = "null"
                /\ request.accountLastFour = "null"]_vars


(* C31: once AchPaymentEntry.handleSubmit has dispatched 'submit',
   isProcessing is true; while isProcessing is true isSubmitDisabled is true
   and no 'submit' event is dispatched; and isProcessing becomes false only
   when the parent calls setProcessing(false), setError or reset. *)
C31_OneSubmitWhileProcessing ==
    [][/\ ach_out'.event = "submit" => ach'.isProcessing
       /\ ach.isProcessing
            => /\ ACH_isSubmitDisabled
               /\ ach_out'.event # "submit"
               /\ ~ach'.isProcessing
                    => \/ ACH_setProcessing(FALSE)
                       \/ \E errorMessage \in {"Payment failed"} : ACH_setError(errorMessage)
                       \/ ACH_reset]_vars

(* C31 witness: 'submit' was just dispatched for a complete, authorized form
   and the component is processing. *)
C31_Witness ==
    /\ ach_out.event = "submit"
    /\ ach.isProcessing
    /\ ACH_isSubmitDisabled
    /\ ach.authorized
    /\ Len(ach.routingNumber) = 9


(* the three number fields of AchPaymentEntry hold decimal digits only *)
NumberFieldsAreDigits ==
    /\ Range(ach.routingNumber) \subseteq Digits
    /\ Range(ach.accountNumber) \subseteq Digits
    /\ Range(ach.confirmAccountNumber) \subseteq Digits

(* C36 as stated: the number fields hold only digits, and reset() returns
   every tracked field, error included, to its initial value. *)
C36_Original ==
    /\ []NumberFieldsAreDigits
    /\ [][ACH_reset => ach' = AchInitial]_vars

(* C36: in AchPaymentEntry routingNumber, accountNumber and
   confirmAccountNumber contain only decimal digits after any sequence of
   field changes, and reset() from any state returns account type, names,
   numbers, amount, save flag, authorization and isProcessing to their
   initial values and sets error to null (it starts undefined). *)
C36_DigitsAndReset ==
    /\ []NumberFieldsAreDigits
    /\ [][ACH_reset
            => /\ ach'.error = "null"
               /\ [ach' EXCEPT !.error = AchInitial.error] = AchInitial]_vars

(* C36 witness: the form was filled (a routing number typed with
   separators had been stored as nine digits) and then reset: every field has
   its initial value and error is null. *)
C36_Witness ==
    /\ ach = [AchInitial EXCEPT !.error = "null"]
    /\ ach_out = NoAchEvent


(* C32: in InvoicePayment, whenever canSubmit is true the single allocation
   has 0 < amount <= balanceDue, and its isFullPayment flag is true exactly
   when paymentType is 'full', in which case amount = balanceDue. *)
C32_SubmittableAllocationInRange ==
    IP_canSubmit
      => LET alloc == IP_invoiceAllocations[1]
         IN /\ Len(IP_invoiceAllocations) = 1
            /\ 0 < alloc.amount
            /\ alloc.amount <= IP_balanceDue
            /\ alloc.isFullPayment <=> (ip_paymentType = "full")
            /\ ip_paymentType = "full" => alloc.amount = IP_balanceDue


(* C33: once no previewInvoices call is pending, invoicePreview is the
   preview computed for the current paymentTerms (the load having succeeded
   and no preview call having failed). *)
C33_PreviewMatchesTerms ==
    (gi.loadCall = "done" /\ gi.previews = <<>> /\ ~gi.previewErrorLogged)
      => gi.invoicePreview = <<gi.paymentTerms>>

(* C34: when generateInvoicesFromOrder fails, handleGenerate stores and shows
   the error message, leaves generatedInvoices unchanged and sets
   isGenerating to false; on success generatedInvoices has one row per
   returned id, in order, each 'Scheduled' if enableAutoPay is set and
   'Pending' otherwise. *)
C34_GenerateOutcome ==
    [][\A i \in 1..MaxInFlight, invoiceIds \in InvoiceIdLists :
         /\ GI_generateSettled(i, FALSE, invoiceIds)
              => /\ gi'.error = "Server error"
                 /\ gi'.toast = Toast("error", "Error", gi'.error)
                 /\ gi'.generatedInvoices = gi.generatedInvoices
                 /\ ~gi'.isGenerating
         /\ GI_generateSettled(i, TRUE, invoiceIds)
              => /\ gi'.generatedInvoices.defined
                 /\ Len(gi'.generatedInvoices.rows) = Len(invoiceIds)
                 /\ \A k \in DOMAIN invoiceIds :
                       /\ gi'.generatedInvoices.rows[k].Id = invoiceIds[k]
                       /\ gi'.generatedInvoices.rows[k].Status
                             = IF gi.enableAutoPay THEN "Scheduled" ELSE "Pending"]_vars

(* C34 witness: a generation failed after an earlier one had produced two
   invoices without auto-pay; the two rows are still there, the error is
   stored and shown, and nothing is generating. *)
C34_Witness ==
    /\ gi.toast = Toast("error", "Error", "Server error")
    /\ gi.error = "Server error"
    /\ gi.generatedInvoices.defined
    /\ Len(gi.generatedInvoices.rows) = 2
    /\ gi.generatedInvoices.rows[1].Status = "Pending"
    /\ ~gi.isGenerating
    /\ gi.generates = <<>>


(* C35: every busy flag raised by an asynchronous handler is lowered again,
   whichever way the handler ends, provided the calls it waits for return:
   PaymentForm.isLoading, CallCenterPayment.isLoading,
   InvoiceSelector.isLoading, GenerateInvoices.isLoading and isGenerating *)
C35_BusyFlagsCleared ==
    /\ pf_isLoading ~> ~pf_isLoading
    /\ cc.isLoading ~> ~cc.isLoading
    /\ is_isLoading ~> ~is_isLoading
    /\ gi.isLoading ~> ~gi.isLoading
    /\ gi.isGenerating ~> ~gi.isGenerating

(* a payment whose call threw has lowered the flag, every load being over *)
C35_Witness ==
    /\ cc_out = Toast("error", "Error processing payment", "")
    /\ cc_pending = NothingPending
    /\ ~cc.isLoading
    /\ ~pf_isLoading
    /\ ~is_isLoading
    /\ ~gi.isLoading

====
